---- MODULE Spec2Model ----
(***************************************************************************)
(* ClipSync: the bounded history store (src/main/json-storage.ts), the     *)
(* IPC handlers that drive it (src/main/index.ts) and the clipboard        *)
(* watcher that feeds it (ClipboardMonitor).                               *)
(*                                                                         *)
(* Strings that the program searches or measures are sequences of          *)
(* one-character strings; timestamps are integers (milliseconds relative   *)
(* to the launch of the modelled run, so a record written by an earlier    *)
(* run carries a createdAt <= 0).                                          *)
(***************************************************************************)
EXTENDS Integers, Sequences, FiniteSets, TLC

VARIABLES
    running,          \* the main process is alive (a JsonStorageManager exists)
    entries,          \* JsonStorageManager.data.entries, index 1 = array index 0
    nextId,           \* JsonStorageManager.nextId
    saveTimeout,      \* JsonStorageManager.saveTimeout is not null
    disk,             \* the durable file localclip-data.json
    now,              \* the wall clock read by new Date()
    settings,         \* the settings store (SettingsManager)
    last,             \* history variable: the operation that ran last
    result,           \* history variable: what the last getClipboardHistory returned
    issued,           \* history variable: every id handed out, in order
    runStart,         \* history variable: Len(issued) when this run was launched
    clipboard,        \* the clipboard of the operating system
    isMonitoring,     \* ClipboardMonitor.isMonitoring
    interval,         \* ClipboardMonitor.interval is not null: the poll timer runs
    lastClipboardContent,  \* ClipboardMonitor.lastClipboardContent
    lastClipboardImage,    \* ClipboardMonitor.lastClipboardImage
    platform,         \* process.platform
    targetAppInfo,    \* ClipSyncApp.targetAppInfo
    awaiting,         \* runs of pasteToTargetApp suspended in their 100 ms delay
    resumeTimers,     \* pending 500 ms timers that will call start()
    pasteCount,       \* history variable: pastes requested so far
    pasteWrote,       \* history variable: a paste wrote what the clipboard holds
    suspended,        \* runs of checkClipboard suspended in their await
    saveDue,          \* the time at which the timer of debouncedSave is due
    mainWindow        \* ClipSyncApp.mainWindow is not null

storeVars == <<running, entries, nextId, saveTimeout, disk, now,
               settings, last, result, issued, runStart>>

\* what the event loop holds for the watcher and for the store, and the
\* window through which the handlers are invoked
loopVars == <<suspended, saveDue, mainWindow>>

pasteVars == <<platform, targetAppInfo, awaiting, resumeTimers, pasteCount,
               pasteWrote, loopVars>>

watcherVars == <<clipboard, isMonitoring, interval, lastClipboardContent,
                 lastClipboardImage, pasteVars>>

vars == <<storeVars, watcherVars>>

----------------------------------------------------------------------------
(* Bounds of the model *)

\* inserts per behaviour, over all runs
MaxAdds == 2
\* submissions in a run with the watcher
MaxSubmits == 3
\* the largest limit and offset of a paged query
MaxPage == 2
\* pastes per behaviour
MaxPastes == 2
\* milliseconds the clock may advance per behaviour
MaxClock == 1
\* records in the file an earlier run left behind
FileEntries == 20

----------------------------------------------------------------------------
(* Values *)

Min(a, b) == IF a < b THEN a ELSE b
Max(a, b) == IF a > b THEN a ELSE b

\* the value of an optional string field that is not set
Undefined == <<"undefined">>

\* JavaScript truthiness of an optional string
Truthy(s) == s # Undefined /\ s # <<>>

TextCategory == <<"T", "e", "x", "t">>

\* String.prototype.toLowerCase, one character at a time
LowerChar(c) ==
    LET upper == <<"A", "B", "C", "D", "E", "F", "G", "H", "I", "J", "K", "L",
                   "M", "N", "O", "P", "Q", "R", "S", "T", "U", "V", "W", "X",
                   "Y", "Z">>
        lower == <<"a", "b", "c", "d", "e", "f", "g", "h", "i", "j", "k", "l",
                   "m", "n", "o", "p", "q", "r", "s", "t", "u", "v", "w", "x",
                   "y", "z">>
    IN  IF \E i \in 1..26 : upper[i] = c
        THEN lower[CHOOSE i \in 1..26 : upper[i] = c]
        ELSE c

ToLowerCase(s) == [i \in 1..Len(s) |-> LowerChar(s[i])]

\* String.prototype.includes
Includes(s, q) ==
    \E i \in 0..(Len(s) - Len(q)) :
        \A k \in 1..Len(q) : s[i + k] = q[k]

\* String.prototype.substring(0, n)
Substring0(s, n) == SubSeq(s, 1, Min(n, Len(s)))

----------------------------------------------------------------------------
(* Array helpers *)

\* the two comparators the store sorts with: negative when a goes before b
OldestFirst(a, b) == a.createdAt - b.createdAt
NewestFirst(a, b) == b.createdAt - a.createdAt

\* Array.prototype.sort with one of these comparators.  The sort of V8 is a
\* stable merge sort: elements that compare equal keep their array order.
Compare(a, b, newestFirst) ==
    IF newestFirst THEN NewestFirst(a, b) ELSE OldestFirst(a, b)

RECURSIVE Merge(_, _, _)
Merge(left, right, newestFirst) ==
    IF left = <<>> THEN right
    ELSE IF right = <<>> THEN left
    ELSE IF Compare(Head(right), Head(left), newestFirst) < 0
    THEN <<Head(right)>> \o Merge(left, Tail(right), newestFirst)
    ELSE <<Head(left)>> \o Merge(Tail(left), right, newestFirst)

RECURSIVE Sort(_, _)
Sort(s, newestFirst) ==
    IF Len(s) <= 1 THEN s
    ELSE LET half == Len(s) \div 2
         IN  Merge(Sort(SubSeq(s, 1, half), newestFirst),
                   Sort(SubSeq(s, half + 1, Len(s)), newestFirst),
                   newestFirst)

\* Array.prototype.slice(from, to) for 0 <= from
Slice(s, from, to) == SubSeq(s, from + 1, Min(to, Len(s)))

Ids(es) == {es[i].id : i \in 1..Len(es)}
Pinned(es) == SelectSeq(es, LAMBDA e : e.isPinned)
NonPinned(es) == SelectSeq(es, LAMBDA e : ~e.isPinned)

getClipboardEntryCount == Len(entries)
getNonPinnedEntryCount == Len(NonPinned(entries))
getPinnedEntryCount == Len(Pinned(entries))

----------------------------------------------------------------------------
(* Persistence *)

\* A createdAt / updatedAt string of the file that Date cannot parse, and the
\* Invalid Date object that new Date() makes of it. Timestamps are integers,
\* so the two values are integers no timestamp of the model reaches.
UnparsableDate == 0 - 100001
InvalidDate == 0 - 100002

\* new Date(value) for a value of the file
NewDate(value) == IF value = UnparsableDate THEN InvalidDate ELSE value

\* a record of the file is null
NullRecord == [null |-> TRUE]

\* entry.field is present in a record of the file
Has(entry, field) == field \in DOMAIN entry

\* One record of the file as validateEntry rebuilds it at load time; a field
\* that is missing (or null) in the file is a field the record does not have.
validateEntry(entry) ==
    [id          |-> IF Has(entry, "id") THEN entry.id ELSE 0,
     content     |-> IF Has(entry, "content") /\ Truthy(entry.content)
                     THEN entry.content ELSE <<>>,
     contentType |-> IF Has(entry, "contentType") THEN entry.contentType
                     ELSE "text",
     format      |-> IF Has(entry, "format") THEN entry.format ELSE "text",
     preview     |-> IF Has(entry, "preview") /\ Truthy(entry.preview)
                     THEN entry.preview
                     ELSE IF Has(entry, "content") /\ Truthy(entry.content)
                          THEN Substring0(entry.content, 100)
                          ELSE <<>>,
     createdAt   |-> IF Has(entry, "createdAt") THEN NewDate(entry.createdAt)
                     ELSE now,
     updatedAt   |-> IF Has(entry, "updatedAt") THEN NewDate(entry.updatedAt)
                     ELSE now,
     isPinned    |-> Has(entry, "isPinned") /\ entry.isPinned,
     category    |-> IF Has(entry, "category") /\ Truthy(entry.category)
                     THEN entry.category ELSE Undefined,
     usageCount  |-> IF Has(entry, "usageCount") THEN entry.usageCount ELSE 0,
     note        |-> IF Has(entry, "note") /\ Truthy(entry.note)
                     THEN entry.note ELSE Undefined]

\* data.entries after loadData: validateEntry throws on a record that is
\* null, the catch block of loadData keeps the empty default data
loadData(file) ==
    IF file.exists /\ \A i \in 1..Len(file.entries) :
                          file.entries[i] # NullRecord
    THEN [i \in 1..Len(file.entries) |-> validateEntry(file.entries[i])]
    ELSE <<>>

\* nextId after updateNextId, from the constructor's nextId = 1
updateNextId(es) ==
    IF Len(es) > 0
    THEN 1 + (CHOOSE m \in Ids(es) : \A x \in Ids(es) : x <= m)
    ELSE 1

\* Date.prototype.toJSON inside JSON.stringify: an Invalid Date is written
\* as null, every other date as its ISO string
ToJSON(e) ==
    IF e.createdAt # InvalidDate /\ e.updatedAt # InvalidDate
    THEN e
    ELSE [f \in {g \in DOMAIN e :
                   g \in {"createdAt", "updatedAt"} => e[g] # InvalidDate}
            |-> e[f]]

\* the file content written by saveData
saveData(es) ==
    [exists |-> TRUE, entries |-> [i \in 1..Len(es) |-> ToJSON(es[i])]]

----------------------------------------------------------------------------
(* Eviction *)

\* the two bounds of the clamp exchanged
clampedLimit_Swapped(m) == Max(100, Min(20, m))

clampedLimit(m) == Max(20, Min(100, m))

\* one entry too few is removed
enforceHistoryLimit_OneShort(es, m) ==
    LET nonPinnedEntries == NonPinned(es)
        nonPinnedCount == Len(nonPinnedEntries)
    IN  IF nonPinnedCount > clampedLimit(m)
        THEN LET excessCount == nonPinnedCount - clampedLimit(m)
                 sortedNonPinned == Sort(nonPinnedEntries, FALSE)
                 idsToDelete == Ids(Slice(sortedNonPinned, 0, excessCount - 1))
             IN  SelectSeq(es, LAMBDA e : e.id \notin idsToDelete)
        ELSE es

\* the removal candidates are taken from all entries, pinned ones included
enforceHistoryLimit_AnyEntry(es, m) ==
    LET nonPinnedCount == Len(NonPinned(es))
    IN  IF nonPinnedCount > clampedLimit(m)
        THEN LET excessCount == nonPinnedCount - clampedLimit(m)
                 sorted == Sort(es, FALSE)
                 idsToDelete == Ids(Slice(sorted, 0, excessCount))
             IN  SelectSeq(es, LAMBDA e : e.id \notin idsToDelete)
        ELSE es

\* data.entries after enforceHistoryLimit(m)
enforceHistoryLimit(es, m) ==
    LET nonPinnedEntries == NonPinned(es)
        nonPinnedCount == Len(nonPinnedEntries)
    IN  IF nonPinnedCount > clampedLimit(m)
        THEN LET excessCount == nonPinnedCount - clampedLimit(m)
                 sortedNonPinned == Sort(nonPinnedEntries, FALSE)
                 idsToDelete == Ids(Slice(sortedNonPinned, 0, excessCount))
             IN  SelectSeq(es, LAMBDA e : e.id \notin idsToDelete)
        ELSE es

----------------------------------------------------------------------------
(* Inputs *)

DEFAULT_SETTINGS ==
    [maxHistoryItems |-> 40, monitorClipboard |-> TRUE, autoCategories |-> TRUE]

\* the entry argument of addClipboardEntry: a plain-text capture
Draft(content, pinned) ==
    [content     |-> content,
     contentType |-> "text",
     format      |-> "text",
     preview     |-> Substring0(content, 100),
     isPinned    |-> pinned,
     category    |-> TextCategory,
     usageCount  |-> 0,
     note        |-> Undefined]

\* values given to settings:set for maxHistoryItems; 5 and 150 lie outside
\* the range of the settings slider
Limits == {5, 20, 150}

\* ids the user acts on: the oldest record of a loaded file (pinned there),
\* the first insert of an empty store; id 1 is at times not stored
UserIds == {1}

\* the updates argument of updateClipboardEntry
Patches == {[note |-> <<"n">>, isPinned |-> FALSE]}

\* A file written by an earlier run: FileEntries records, newest first, the
\* oldest one pinned.  "distinct": one record per millisecond; "paired": two
\* records per millisecond (a tick that stored a text and an image change).
FileCreatedAt(profile, id) ==
    IF profile = "distinct" THEN id - FileEntries
    ELSE (id \div 2) - (FileEntries \div 2)

FileOf(profile) ==
    [exists  |-> TRUE,
     entries |-> [i \in 1..FileEntries |->
                    LET id == FileEntries + 1 - i
                        d == Draft(<<"a">>, id = 1)
                    IN  [id          |-> id,
                         content     |-> d.content,
                         contentType |-> d.contentType,
                         format      |-> d.format,
                         preview     |-> d.preview,
                         createdAt   |-> FileCreatedAt(profile, id),
                         updatedAt   |-> FileCreatedAt(profile, id),
                         isPinned    |-> d.isPinned,
                         category    |-> d.category,
                         usageCount  |-> d.usageCount,
                         note        |-> d.note]]]

NoFile == [exists |-> FALSE, entries |-> <<>>]

\* targetAppInfo = null
NoTarget == [set |-> FALSE, bundleId |-> ""]

\* no paste has been requested
NoPaste ==
    /\ targetAppInfo = NoTarget
    /\ awaiting = 0
    /\ resumeTimers = 0
    /\ pasteCount = 0
    /\ pasteWrote = FALSE
    /\ suspended = <<>>
    /\ saveDue = 0
    /\ mainWindow = TRUE

\* the clipboard holds nothing
EmptyClipboard == [text |-> <<>>, html |-> <<>>, rtf |-> <<>>, image |-> <<>>]

InitialFiles == {NoFile, FileOf("distinct"), FileOf("paired")}

\* the record kept in the history variable last: the operation, the id and
\* the limit it was given, whether its draft was pinned, whether it found its
\* target, and how many stored entries it removed
Op(op, id, limit, pinned, ok, removed) ==
    [op |-> op, id |-> id, limit |-> limit, pinned |-> pinned, ok |-> ok,
     removed |-> removed]

NoOp == Op("launch", 0, 0, FALSE, TRUE, 0)

----------------------------------------------------------------------------
(* The store *)

\* new JsonStorageManager(): loadData, then updateNextId
Construct(file) ==
    /\ running' = TRUE
    /\ entries' = loadData(file)
    /\ nextId' = updateNextId(loadData(file))
    /\ saveTimeout' = FALSE

\* debouncedSave leaves one timer pending, whatever was pending before
debouncedSave == saveTimeout' = TRUE

\* the timer of debouncedSave fires
FlushTimer ==
    /\ running /\ saveTimeout
    /\ disk' = saveData(entries)
    /\ saveTimeout' = FALSE
    /\ UNCHANGED <<running, entries, nextId, now, settings, last,
                   result, issued, runStart>>
    /\ UNCHANGED watcherVars

\* the entry addClipboardEntry builds and returns
NewEntry(draft, id) ==
    [id          |-> id,
     content     |-> draft.content,
     contentType |-> draft.contentType,
     format      |-> draft.format,
     preview     |-> draft.preview,
     createdAt   |-> now,
     updatedAt   |-> now,
     isPinned    |-> draft.isPinned,
     category    |-> draft.category,
     usageCount  |-> draft.usageCount,
     note        |-> draft.note]

\* data.entries after addClipboardEntry(draft, m) on the entries es, when
\* nextId is id
EntriesAfterAdd(es, id, draft, m) ==
    IF ~draft.isPinned
    THEN enforceHistoryLimit(<<NewEntry(draft, id)>> \o es, m)
    ELSE <<NewEntry(draft, id)>> \o es

addClipboardEntry(draft, m, by) ==
    /\ running
    /\ entries' = EntriesAfterAdd(entries, nextId, draft, m)
    /\ nextId' = nextId + 1
    /\ debouncedSave
    /\ issued' = Append(issued, [id |-> nextId, by |-> by])
    /\ last' = Op("add", nextId, m, draft.isPinned, TRUE,
                  Len(entries) + 1 - Len(entries'))
    /\ result' = <<>>
    /\ UNCHANGED <<running, disk, now, settings, runStart>>

Found(id) == \E i \in 1..Len(entries) : entries[i].id = id
\* Array.prototype.findIndex / find: the first entry with that id
IndexOf(id) == CHOOSE i \in 1..Len(entries) :
                  /\ entries[i].id = id
                  /\ \A j \in 1..(i - 1) : entries[j].id # id

\* Object.assign(entry, updates, {updatedAt, id, createdAt})
Assign(entry, updates) ==
    [f \in DOMAIN entry |->
        IF f = "updatedAt" THEN now
        ELSE IF f \in {"id", "createdAt"} THEN entry[f]
        ELSE IF f \in DOMAIN updates THEN updates[f]
        ELSE entry[f]]

updateClipboardEntry(id, updates) ==
    /\ running
    /\ IF Found(id)
       THEN /\ entries' = [entries EXCEPT ![IndexOf(id)] = Assign(@, updates)]
            /\ debouncedSave
       ELSE UNCHANGED <<entries, saveTimeout>>
    /\ last' = Op("update", id, 0, FALSE, Found(id), 0)
    /\ result' = <<>>
    /\ UNCHANGED <<running, nextId, disk, now, settings, issued, runStart>>

\* delete schedules a save whether or not it removed an entry
deleteClipboardEntry_AlwaysSaves(id) ==
    /\ running
    /\ entries' = SelectSeq(entries, LAMBDA e : e.id # id)
    /\ debouncedSave
    /\ last' = Op("delete", id, 0, FALSE, Len(entries') < Len(entries),
                  Len(entries) - Len(entries'))
    /\ result' = <<>>
    /\ UNCHANGED <<running, nextId, disk, now, settings, issued, runStart>>

deleteClipboardEntry(id) ==
    /\ running
    /\ entries' = SelectSeq(entries, LAMBDA e : e.id # id)
    /\ IF Len(entries') < Len(entries)
       THEN debouncedSave
       ELSE UNCHANGED saveTimeout
    /\ last' = Op("delete", id, 0, FALSE, Len(entries') < Len(entries),
                  Len(entries) - Len(entries'))
    /\ result' = <<>>
    /\ UNCHANGED <<running, nextId, disk, now, settings, issued, runStart>>

pinClipboardEntry(id) ==
    /\ running
    /\ IF Found(id)
       THEN /\ entries' = [entries EXCEPT
                             ![IndexOf(id)].isPinned = ~@,
                             ![IndexOf(id)].updatedAt = now]
            /\ debouncedSave
       ELSE UNCHANGED <<entries, saveTimeout>>
    /\ last' = Op("pin", id, 0, FALSE, Found(id), 0)
    /\ result' = <<>>
    /\ UNCHANGED <<running, nextId, disk, now, settings, issued, runStart>>

\* clear drops the pinned entries too
clearClipboardHistory_Everything ==
    /\ running
    /\ entries' = <<>>
    /\ IF Len(entries') < Len(entries)
       THEN debouncedSave
       ELSE UNCHANGED saveTimeout
    /\ last' = Op("clear", 0, 0, FALSE, Len(entries') < Len(entries),
                  Len(entries) - Len(entries'))
    /\ result' = <<>>
    /\ UNCHANGED <<running, nextId, disk, now, settings, issued, runStart>>

clearClipboardHistory ==
    /\ running
    /\ entries' = SelectSeq(entries, LAMBDA e : e.isPinned)
    /\ IF Len(entries') < Len(entries)
       THEN debouncedSave
       ELSE UNCHANGED saveTimeout
    /\ last' = Op("clear", 0, 0, FALSE, Len(entries') < Len(entries),
                  Len(entries) - Len(entries'))
    /\ result' = <<>>
    /\ UNCHANGED <<running, nextId, disk, now, settings, issued, runStart>>

\* the new limit is stored but applied to later inserts only
SettingsSet_StoreOnly(value) ==
    /\ running
    /\ settings' = [settings EXCEPT !.maxHistoryItems = value]
    /\ last' = Op("settings:set", 0, value, FALSE, TRUE, 0)
    /\ result' = <<>>
    /\ UNCHANGED <<running, entries, nextId, saveTimeout, disk, now, issued,
                   runStart>>

\* ipcMain.handle('settings:set') with key = 'maxHistoryItems'
SettingsSet(value) ==
    /\ running
    /\ settings' = [settings EXCEPT !.maxHistoryItems = value]
    /\ entries' = enforceHistoryLimit(entries, value)
    /\ last' = Op("settings:set", 0, value, FALSE, TRUE,
                  Len(entries) - Len(entries'))
    /\ result' = <<>>
    /\ UNCHANGED <<running, nextId, saveTimeout, disk, now, issued, runStart>>

\* settingsManager.get('maxHistoryItems') || 40
LimitSetting ==
    IF settings.maxHistoryItems = 0 THEN 40 ELSE settings.maxHistoryItems

\* ipcMain.handle('clipboard:add')
ClipboardAdd(draft) == addClipboardEntry(draft, LimitSetting, "add")

----------------------------------------------------------------------------
(* Query *)

\* the default of the limit option of getClipboardHistory
DefaultLimit == 100

All == <<"a", "l", "l">>

\* the limit cuts the whole result, pinned entries included
getClipboardHistory_SliceAll(es, options) ==
    LET limit == IF "limit" \in DOMAIN options THEN options.limit
                 ELSE DefaultLimit
        offset == IF "offset" \in DOMAIN options THEN options.offset ELSE 0
        byCategory ==
            IF /\ "category" \in DOMAIN options
               /\ options.category # <<>>
               /\ options.category # All
            THEN SelectSeq(es, LAMBDA e :
                     /\ e.category # Undefined
                     /\ ToLowerCase(e.category) = ToLowerCase(options.category))
            ELSE es
        byContentType ==
            IF "contentType" \in DOMAIN options /\ options.contentType # ""
            THEN SelectSeq(byCategory, LAMBDA e : e.format = options.contentType)
            ELSE byCategory
        filtered ==
            IF "searchQuery" \in DOMAIN options /\ options.searchQuery # <<>>
            THEN LET query == ToLowerCase(options.searchQuery)
                 IN  SelectSeq(byContentType, LAMBDA e :
                         \/ Includes(ToLowerCase(e.content), query)
                         \/ /\ e.preview # Undefined
                            /\ Includes(ToLowerCase(e.preview), query)
                         \/ /\ e.category # Undefined
                            /\ Includes(ToLowerCase(e.category), query)
                         \/ /\ e.note # Undefined
                            /\ Includes(ToLowerCase(e.note), query))
            ELSE byContentType
        pinnedEntries == Sort(Pinned(filtered), TRUE)
        nonPinnedEntries == Sort(NonPinned(filtered), TRUE)
    IN  Slice(pinnedEntries \o nonPinnedEntries, offset, offset + limit)

\* the search compares the fields with the query as it was typed
getClipboardHistory_CaseSensitive(es, options) ==
    LET limit == IF "limit" \in DOMAIN options THEN options.limit
                 ELSE DefaultLimit
        offset == IF "offset" \in DOMAIN options THEN options.offset ELSE 0
        byCategory ==
            IF /\ "category" \in DOMAIN options
               /\ options.category # <<>>
               /\ options.category # All
            THEN SelectSeq(es, LAMBDA e :
                     /\ e.category # Undefined
                     /\ ToLowerCase(e.category) = ToLowerCase(options.category))
            ELSE es
        byContentType ==
            IF "contentType" \in DOMAIN options /\ options.contentType # ""
            THEN SelectSeq(byCategory, LAMBDA e : e.format = options.contentType)
            ELSE byCategory
        filtered ==
            IF "searchQuery" \in DOMAIN options /\ options.searchQuery # <<>>
            THEN LET query == options.searchQuery
                 IN  SelectSeq(byContentType, LAMBDA e :
                         \/ Includes(ToLowerCase(e.content), query)
                         \/ /\ e.preview # Undefined
                            /\ Includes(ToLowerCase(e.preview), query)
                         \/ /\ e.category # Undefined
                            /\ Includes(ToLowerCase(e.category), query)
                         \/ /\ e.note # Undefined
                            /\ Includes(ToLowerCase(e.note), query))
            ELSE byContentType
        pinnedEntries == Sort(Pinned(filtered), TRUE)
        nonPinnedEntries == Sort(NonPinned(filtered), TRUE)
        limitedNonPinned == Slice(nonPinnedEntries, offset, offset + limit)
    IN  pinnedEntries \o limitedNonPinned

\* The array getClipboardHistory(options) returns on the entries es.  The
\* options are a record of the fields that are given; a field that is left
\* out takes its default.
getClipboardHistory(es, options) ==
    LET limit == IF "limit" \in DOMAIN options THEN options.limit
                 ELSE DefaultLimit
        offset == IF "offset" \in DOMAIN options THEN options.offset ELSE 0
        byCategory ==
            IF /\ "category" \in DOMAIN options
               /\ options.category # <<>>
               /\ options.category # All
            THEN SelectSeq(es, LAMBDA e :
                     /\ e.category # Undefined
                     /\ ToLowerCase(e.category) = ToLowerCase(options.category))
            ELSE es
        byContentType ==
            IF "contentType" \in DOMAIN options /\ options.contentType # ""
            THEN SelectSeq(byCategory, LAMBDA e : e.format = options.contentType)
            ELSE byCategory
        filtered ==
            IF "searchQuery" \in DOMAIN options /\ options.searchQuery # <<>>
            THEN LET query == ToLowerCase(options.searchQuery)
                 IN  SelectSeq(byContentType, LAMBDA e :
                         \/ Includes(ToLowerCase(e.content), query)
                         \/ /\ e.preview # Undefined
                            /\ Includes(ToLowerCase(e.preview), query)
                         \/ /\ e.category # Undefined
                            /\ Includes(ToLowerCase(e.category), query)
                         \/ /\ e.note # Undefined
                            /\ Includes(ToLowerCase(e.note), query))
            ELSE byContentType
        pinnedEntries == Sort(Pinned(filtered), TRUE)
        nonPinnedEntries == Sort(NonPinned(filtered), TRUE)
        limitedNonPinned == Slice(nonPinnedEntries, offset, offset + limit)
    IN  pinnedEntries \o limitedNonPinned

\* a caller of the store runs getClipboardHistory(options)
Query(options) ==
    /\ running
    /\ result' = getClipboardHistory(entries, options)
    /\ last' = [op |-> "query", id |-> 0, limit |-> 0, pinned |-> FALSE,
                ok |-> TRUE, removed |-> 0, options |-> options]
    /\ UNCHANGED <<running, entries, nextId, saveTimeout, disk, now, settings,
                   issued, runStart>>

----------------------------------------------------------------------------
(* The clipboard and its classification.  A text is a sequence of          *)
(* characters; in markup a tag or a control word is one element of the     *)
(* sequence.  The markup of the model has no head element, comment,        *)
(* script, style or character entity.                                      *)

\* String.prototype.trim over the whitespace of the model, the space
Trim(s) ==
    LET solid == {i \in 1..Len(s) : s[i] # " "}
    IN  IF solid = {} THEN <<>>
        ELSE SubSeq(s, CHOOSE i \in solid : \A j \in solid : i <= j,
                       CHOOSE i \in solid : \A j \in solid : i >= j)

\* the elements lo..hi of s without the spaces that follow a space
RECURSIVE CollapseRange(_, _, _)
CollapseRange(s, lo, hi) ==
    IF lo > hi THEN <<>>
    ELSE IF lo = hi
    THEN IF s[lo] = " " /\ lo > 1 /\ s[lo - 1] = " " THEN <<>> ELSE <<s[lo]>>
    ELSE LET mid == (lo + hi) \div 2
         IN  CollapseRange(s, lo, mid) \o CollapseRange(s, mid + 1, hi)

\* replace(/\s+/g, ' ')
CollapseSpaces(s) == CollapseRange(s, 1, Len(s))

\* tags that isRichHTML removes as wrappers
WrapperTags == {"<html>", "</html>", "<body>", "</body>", "<meta>"}
\* opening tags that isRichHTML counts as formatting
FormattingTags == {"<b>", "<p>"}
\* opening tags with a style attribute whose name is no formatting tag
StyledTags == {"<o style='c'>"}
\* every element that the pattern <[^>]*> matches
Tags == WrapperTags \union FormattingTags \union StyledTags \union
        {"</b>", "</p>", "</o>"}

isRichHTML(html, plainText) ==
    LET cleanHTML == Trim(SelectSeq(html, LAMBDA t : t \notin WrapperTags))
        hasFormattingTags ==
            \E i \in 1..Len(cleanHTML) : cleanHTML[i] \in FormattingTags
        hasInlineStyles ==
            \E i \in 1..Len(cleanHTML) : cleanHTML[i] \in StyledTags
        htmlTextContent ==
            Trim(SelectSeq(cleanHTML, LAMBDA t : t \notin Tags))
        isSignificantlyDifferent == htmlTextContent # Trim(plainText)
    IN  hasFormattingTags \/ hasInlineStyles \/ isSignificantlyDifferent

extractCleanTextFromHTML(html) ==
    Trim(CollapseSpaces(SelectSeq(html, LAMBDA t : t \notin Tags)))

\* control words of RTF that the pattern \\[a-z]+\d*\s? matches
RtfControlWords == {"\\rtf1", "\\ansi", "\\b"}

extractTextFromRTF(rtf) ==
    LET closing == {i \in 1..Len(rtf) : rtf[i] = "}"}
        \* replace(/^{\s*\\rtf1[^}]*}/g, ''): the header up to the first }
        text1 == IF Len(rtf) >= 2 /\ rtf[1] = "{" /\ rtf[2] = "\\rtf1"
                    /\ closing # {}
                 THEN SubSeq(rtf, (CHOOSE i \in closing :
                                      \A j \in closing : i <= j) + 1,
                             Len(rtf))
                 ELSE rtf
        \* a control word becomes a space
        text2 == [i \in 1..Len(text1) |->
                     IF text1[i] \in RtfControlWords THEN " " ELSE text1[i]]
        \* replace(/[{}]/g, '')
        text3 == SelectSeq(text2, LAMBDA t : t \notin {"{", "}"})
    IN  Trim(CollapseSpaces(text3))

\* The texts of the model that each detector accepts.
\* new URL(text) succeeds on http://a
UrlTexts == {<<"h", "t", "t", "p", ":", "/", "/", "a">>}
\* the standard email pattern matches a@b.co, and no URL pattern does
EmailTexts == {<<"a", "@", "b", ".", "c", "o">>}
\* /^\+?[1-9]\d{6,14}$/ matches 5551234
PhoneTexts == {<<"5", "5", "5", "1", "2", "3", "4">>}
\* /^[\w-]+\s*=\s*/ matches x=1;
CodeTexts == {<<"x", "=", "1", ";">>}

isURL(text) == text \in UrlTexts
isEmail(text) == text \in EmailTexts
isPhoneNumber(text) == text \in PhoneTexts
isCode(text) == text \in CodeTexts

detectContentType(content, format) ==
    IF format = "image" THEN "image"
    ELSE IF format = "file" THEN "file"
    ELSE IF format = "html" THEN "rich-text"
    ELSE IF format = "rtf" THEN "rich-text"
    ELSE IF isURL(content) THEN "url"
    ELSE IF isEmail(content) THEN "email"
    ELSE IF isPhoneNumber(content) THEN "phone"
    ELSE IF isCode(content) THEN "code"
    ELSE "text"

Ellipsis == <<".", ".", ".">>
RichTextPreview == <<"[", "R", "i", "c", "h", " ", "T", "e", "x", "t", "]">>

\* a plain text is its own preview, whatever its length
generatePreview_NoTruncate(content, format) ==
    IF format = "image" THEN <<"[", "I", "m", "a", "g", "e", "]">>
    ELSE IF format = "file" THEN <<"[", "F", "i", "l", "e", "]">>
    ELSE IF format = "html"
    THEN LET plainText == extractCleanTextFromHTML(content)
         IN  IF Len(plainText) > 100
             THEN Substring0(plainText, 100) \o Ellipsis
             ELSE IF plainText # <<>> THEN plainText ELSE RichTextPreview
    ELSE IF format = "rtf"
    THEN LET plainText == extractTextFromRTF(content)
         IN  IF Len(plainText) > 100
             THEN Substring0(plainText, 100) \o Ellipsis
             ELSE IF plainText # <<>> THEN plainText ELSE RichTextPreview
    ELSE content

generatePreview(content, format) ==
    IF format = "image" THEN <<"[", "I", "m", "a", "g", "e", "]">>
    ELSE IF format = "file" THEN <<"[", "F", "i", "l", "e", "]">>
    ELSE IF format = "html"
    THEN LET plainText == extractCleanTextFromHTML(content)
         IN  IF Len(plainText) > 100
             THEN Substring0(plainText, 100) \o Ellipsis
             ELSE IF plainText # <<>> THEN plainText ELSE RichTextPreview
    ELSE IF format = "rtf"
    THEN LET plainText == extractTextFromRTF(content)
         IN  IF Len(plainText) > 100
             THEN Substring0(plainText, 100) \o Ellipsis
             ELSE IF plainText # <<>> THEN plainText ELSE RichTextPreview
    ELSE IF Len(content) > 100
    THEN Substring0(content, 100) \o Ellipsis
    ELSE content

\* the autoCategories setting is consulted before the format
asyncCategorizeContent_SettingFirst(content, format) ==
    IF settings.autoCategories = FALSE
    THEN <<"U", "n", "c", "a", "t", "e", "g", "o", "r", "i", "z", "e", "d">>
    ELSE IF format \in {"html", "rtf"}
    THEN <<"R", "i", "c", "h", " ", "T", "e", "x", "t">>
    ELSE IF format = "image" THEN <<"I", "m", "a", "g", "e", "s">>
    ELSE IF format = "file" THEN <<"F", "i", "l", "e", "s">>
    ELSE LET contentType == detectContentType(content, format)
         IN  CASE contentType = "url" -> <<"U", "R", "L", "s">>
               [] contentType = "email" ->
                    <<"E", "m", "a", "i", "l", " ", "A", "d", "d", "r", "e",
                      "s", "s", "e", "s">>
               [] contentType = "phone" ->
                    <<"P", "h", "o", "n", "e", " ", "N", "u", "m", "b", "e",
                      "r", "s">>
               [] contentType = "code" -> <<"C", "o", "d", "e">>
               [] OTHER -> TextCategory

asyncCategorizeContent(content, format) ==
    IF format \in {"html", "rtf"}
    THEN <<"R", "i", "c", "h", " ", "T", "e", "x", "t">>
    ELSE IF format = "image" THEN <<"I", "m", "a", "g", "e", "s">>
    ELSE IF format = "file" THEN <<"F", "i", "l", "e", "s">>
    ELSE IF settings.autoCategories = FALSE
    THEN <<"U", "n", "c", "a", "t", "e", "g", "o", "r", "i", "z", "e", "d">>
    ELSE LET contentType == detectContentType(content, format)
         IN  CASE contentType = "rich-text" ->
                    <<"R", "i", "c", "h", " ", "T", "e", "x", "t">>
               [] contentType = "url" -> <<"U", "R", "L", "s">>
               [] contentType = "email" ->
                    <<"E", "m", "a", "i", "l", " ", "A", "d", "d", "r", "e",
                      "s", "s", "e", "s">>
               [] contentType = "phone" ->
                    <<"P", "h", "o", "n", "e", " ", "N", "u", "m", "b", "e",
                      "r", "s">>
               [] contentType = "code" -> <<"C", "o", "d", "e">>
               [] OTHER -> TextCategory

\* Number.prototype.toString(16) of a byte
ToHex(b) ==
    LET digit == <<"0", "1", "2", "3", "4", "5", "6", "7",
                   "8", "9", "a", "b", "c", "d", "e", "f">>
    IN  IF b < 16 THEN <<digit[b + 1]>>
        ELSE <<digit[(b \div 16) + 1], digit[(b % 16) + 1]>>

\* Number.prototype.toString() of a length
ToDecimal(n) ==
    LET digit == <<"0", "1", "2", "3", "4", "5", "6", "7", "8", "9">>
        F[k \in 0..n] ==
            IF k < 10 THEN <<digit[k + 1]>>
            ELSE F[k \div 10] \o <<digit[(k % 10) + 1]>>
    IN  F[n]

\* the hexadecimal digits that the loop of getImageHash appends for its
\* rounds lo..hi, round k reading the byte at index k * step
RECURSIVE SampleHex(_, _, _, _)
SampleHex(image, step, lo, hi) ==
    IF lo > hi THEN <<>>
    ELSE IF lo = hi THEN ToHex(image[lo * step + 1])
    ELSE LET mid == (lo + hi) \div 2
         IN  SampleHex(image, step, lo, mid)
                 \o SampleHex(image, step, mid + 1, hi)

\* getImageHash of the image on the clipboard, given as the bytes of its PNG
\* encoding; the empty image is <<>> and its hash is the empty string.  The
\* loop runs for i = 0, step, 2 * step, ... as long as i < samplePoints.
getImageHash(image) ==
    IF image = <<>> THEN <<>>
    ELSE LET samplePoints == Min(100, Len(image))
             step == Len(image) \div samplePoints
             rounds == (samplePoints + step - 1) \div step
         IN  ToDecimal(Len(image)) \o SampleHex(image, step, 0, rounds - 1)

\* Buffer.prototype.toString('base64')
ToBase64(bytes) ==
    LET char == <<"A", "B", "C", "D", "E", "F", "G", "H", "I", "J", "K", "L",
                  "M", "N", "O", "P", "Q", "R", "S", "T", "U", "V", "W", "X",
                  "Y", "Z", "a", "b", "c", "d", "e", "f", "g", "h", "i", "j",
                  "k", "l", "m", "n", "o", "p", "q", "r", "s", "t", "u", "v",
                  "w", "x", "y", "z", "0", "1", "2", "3", "4", "5", "6", "7",
                  "8", "9", "+", "/">>
        at(i) == IF i <= Len(bytes) THEN bytes[i] ELSE 0
        group(g) ==
            LET i == 3 * g + 1
                n == at(i) * 65536 + at(i + 1) * 256 + at(i + 2)
            IN  <<char[(n \div 262144) + 1],
                  char[((n \div 4096) % 64) + 1],
                  IF i + 1 <= Len(bytes) THEN char[((n \div 64) % 64) + 1]
                  ELSE "=",
                  IF i + 2 <= Len(bytes) THEN char[(n % 64) + 1] ELSE "=">>
        F[g \in 0..((Len(bytes) + 2) \div 3)] ==
            IF 3 * g >= Len(bytes) THEN <<>> ELSE group(g) \o F[g + 1]
    IN  F[0]

\* what saveImageToFile returns: the data URI of the image, or null (<<>>)
\* when the image is empty or a file of it cannot be written
saveImageToFile(image, written) ==
    IF image = <<>> \/ ~written THEN <<>>
    ELSE <<"data:image/png;base64,">> \o ToBase64(image)

\* the entry that handleClipboardChange submits
WatcherDraft(format, content) ==
    [content     |-> content,
     contentType |-> detectContentType(content, format),
     format      |-> format,
     preview     |-> generatePreview(content, format),
     isPinned    |-> FALSE,
     category    |-> asyncCategorizeContent(content, format),
     usageCount  |-> 0,
     note        |-> Undefined]

----------------------------------------------------------------------------
(* The watcher *)

\* start() keeps the baseline of the previous run of the watcher
start_StaleBaseline ==
    IF isMonitoring
    THEN UNCHANGED <<isMonitoring, interval, lastClipboardContent,
                     lastClipboardImage>>
    ELSE /\ isMonitoring' = TRUE
         /\ UNCHANGED <<lastClipboardContent, lastClipboardImage>>
         /\ interval' = TRUE

\* ClipboardMonitor.start()
start ==
    IF isMonitoring
    THEN UNCHANGED <<isMonitoring, interval, lastClipboardContent,
                     lastClipboardImage>>
    ELSE /\ isMonitoring' = TRUE
         /\ lastClipboardContent' = clipboard.text
         /\ lastClipboardImage' = getImageHash(clipboard.image)
         /\ interval' = TRUE

\* ClipboardMonitor.stop()
stop ==
    IF ~isMonitoring
    THEN UNCHANGED <<isMonitoring, interval, lastClipboardContent,
                     lastClipboardImage>>
    ELSE /\ isMonitoring' = FALSE
         /\ interval' = FALSE
         /\ UNCHANGED <<lastClipboardContent, lastClipboardImage>>

\* the format that the text track of checkClipboard settles on
TextFormat ==
    IF /\ clipboard.html # <<>>
       /\ Trim(clipboard.html) # <<>>
       /\ isRichHTML(clipboard.html, clipboard.text)
    THEN "html"
    ELSE IF /\ clipboard.rtf # <<>>
            /\ Trim(clipboard.rtf) # <<>>
            /\ clipboard.rtf # clipboard.text
    THEN "rtf"
    ELSE "text"

\* and the content it submits
TextContent ==
    CASE TextFormat = "html" -> clipboard.html
      [] TextFormat = "rtf" -> clipboard.rtf
      [] OTHER -> clipboard.text

\* the image track submits its entry under the id of the text track's entry
checkClipboard_SharedId(written) ==
    LET currentText == clipboard.text
        currentImageHash == getImageHash(clipboard.image)
        textChanged == currentText # <<>> /\ currentText # lastClipboardContent
        imageData == saveImageToFile(clipboard.image, written)
        imageChanged ==
            /\ currentImageHash # <<>>
            /\ currentImageHash # lastClipboardImage
            /\ imageData # <<>>
        entries1 ==
            IF textChanged
            THEN EntriesAfterAdd(entries, nextId,
                                 WatcherDraft(TextFormat, TextContent),
                                 LimitSetting)
            ELSE entries
        nextId1 == nextId
        entries2 ==
            IF imageChanged
            THEN EntriesAfterAdd(entries1, nextId1,
                                 WatcherDraft("image", imageData), LimitSetting)
            ELSE entries1
        nextId2 == IF textChanged \/ imageChanged THEN nextId + 1 ELSE nextId
    IN  /\ running /\ interval
        /\ entries' = entries2
        /\ nextId' = nextId2
        /\ IF textChanged \/ imageChanged
           THEN debouncedSave
           ELSE UNCHANGED saveTimeout
        /\ lastClipboardContent' =
               IF textChanged THEN currentText ELSE lastClipboardContent
        /\ lastClipboardImage' =
               IF imageChanged THEN currentImageHash ELSE lastClipboardImage
        /\ issued' = issued
               \o (IF textChanged THEN <<[id |-> nextId, by |-> "text"]>>
                   ELSE <<>>)
               \o (IF imageChanged THEN <<[id |-> nextId1, by |-> "image"]>>
                   ELSE <<>>)
        /\ last' = Op("tick", nextId2 - 1, LimitSetting, FALSE,
                      textChanged \/ imageChanged, 0)
        /\ result' = <<>>
        /\ UNCHANGED <<running, disk, now, settings, runStart, clipboard,
                       isMonitoring, interval>>
        /\ UNCHANGED pasteVars

\* the text track remembers the content it stored, not the plain text
checkClipboard_RemembersContent(written) ==
    LET currentText == clipboard.text
        currentImageHash == getImageHash(clipboard.image)
        textChanged == currentText # <<>> /\ currentText # lastClipboardContent
        imageData == saveImageToFile(clipboard.image, written)
        imageChanged ==
            /\ currentImageHash # <<>>
            /\ currentImageHash # lastClipboardImage
            /\ imageData # <<>>
        entries1 ==
            IF textChanged
            THEN EntriesAfterAdd(entries, nextId,
                                 WatcherDraft(TextFormat, TextContent),
                                 LimitSetting)
            ELSE entries
        nextId1 == IF textChanged THEN nextId + 1 ELSE nextId
        entries2 ==
            IF imageChanged
            THEN EntriesAfterAdd(entries1, nextId1,
                                 WatcherDraft("image", imageData), LimitSetting)
            ELSE entries1
        nextId2 == IF imageChanged THEN nextId1 + 1 ELSE nextId1
    IN  /\ running /\ interval
        /\ entries' = entries2
        /\ nextId' = nextId2
        /\ IF textChanged \/ imageChanged
           THEN debouncedSave
           ELSE UNCHANGED saveTimeout
        /\ lastClipboardContent' =
               IF textChanged THEN TextContent ELSE lastClipboardContent
        /\ lastClipboardImage' =
               IF imageChanged THEN currentImageHash ELSE lastClipboardImage
        /\ issued' = issued
               \o (IF textChanged THEN <<[id |-> nextId, by |-> "text"]>>
                   ELSE <<>>)
               \o (IF imageChanged THEN <<[id |-> nextId1, by |-> "image"]>>
                   ELSE <<>>)
        /\ last' = Op("tick", nextId2 - 1, LimitSetting, FALSE,
                      textChanged \/ imageChanged, 0)
        /\ result' = <<>>
        /\ UNCHANGED <<running, disk, now, settings, runStart, clipboard,
                       isMonitoring, interval>>
        /\ UNCHANGED pasteVars

\* One run of checkClipboard, the callback of the poll timer: the text track,
\* then the image track, each with its handleClipboardChange.  Every await on
\* the way waits for a value that is already settled, so the run ends before
\* any other callback of the process starts.
checkClipboard(written) ==
    LET currentText == clipboard.text
        currentImageHash == getImageHash(clipboard.image)
        textChanged == currentText # <<>> /\ currentText # lastClipboardContent
        imageData == saveImageToFile(clipboard.image, written)
        imageChanged ==
            /\ currentImageHash # <<>>
            /\ currentImageHash # lastClipboardImage
            /\ imageData # <<>>
        entries1 ==
            IF textChanged
            THEN EntriesAfterAdd(entries, nextId,
                                 WatcherDraft(TextFormat, TextContent),
                                 LimitSetting)
            ELSE entries
        nextId1 == IF textChanged THEN nextId + 1 ELSE nextId
        entries2 ==
            IF imageChanged
            THEN EntriesAfterAdd(entries1, nextId1,
                                 WatcherDraft("image", imageData), LimitSetting)
            ELSE entries1
        nextId2 == IF imageChanged THEN nextId1 + 1 ELSE nextId1
    IN  /\ running /\ interval
        /\ entries' = entries2
        /\ nextId' = nextId2
        /\ IF textChanged \/ imageChanged
           THEN debouncedSave
           ELSE UNCHANGED saveTimeout
        /\ lastClipboardContent' =
               IF textChanged THEN currentText ELSE lastClipboardContent
        /\ lastClipboardImage' =
               IF imageChanged THEN currentImageHash ELSE lastClipboardImage
        /\ issued' = issued
               \o (IF textChanged THEN <<[id |-> nextId, by |-> "text"]>>
                   ELSE <<>>)
               \o (IF imageChanged THEN <<[id |-> nextId1, by |-> "image"]>>
                   ELSE <<>>)
        /\ last' = Op("tick", nextId2 - 1, LimitSetting, FALSE,
                      textChanged \/ imageChanged, 0)
        /\ result' = <<>>
        /\ UNCHANGED <<running, disk, now, settings, runStart, clipboard,
                       isMonitoring, interval>>
        /\ UNCHANGED pasteVars

\* what settingsManager.get(key) does in a run of the watcher: it returns the
\* stored value, it returns undefined, or it throws (SettingsManager.get
\* logs the error of the store and throws it again)
SettingsReads == {"value", "undefined", "throws"}

\* asyncCategorizeContent when its read of autoCategories ends as read says:
\* the formats html, rtf, image and file return before the read; a throw is
\* caught and gives "Text"; undefined is not false
asyncCategorizeContentReading(content, format, read) ==
    IF format \in {"html", "rtf", "image", "file"}
    THEN asyncCategorizeContent(content, format)
    ELSE IF read = "throws" THEN <<"T", "e", "x", "t">>
    ELSE IF read = "value" /\ settings.autoCategories = FALSE
    THEN <<"U", "n", "c", "a", "t", "e", "g", "o", "r", "i", "z", "e", "d">>
    ELSE LET contentType == detectContentType(content, format)
         IN  CASE contentType = "url" -> <<"U", "R", "L", "s">>
               [] contentType = "email" ->
                    <<"E", "m", "a", "i", "l", " ", "A", "d", "d", "r", "e",
                      "s", "s", "e", "s">>
               [] contentType = "phone" ->
                    <<"P", "h", "o", "n", "e", " ", "N", "u", "m", "b", "e",
                      "r", "s">>
               [] contentType = "code" -> <<"C", "o", "d", "e">>
               [] OTHER -> TextCategory

\* data.entries after handleClipboardChange(format, content) on the entries
\* es with nextId = id: the draft is built, maxHistoryItems is read
\* (undefined || 40), the entry is added; a throw of the read is caught by
\* handleClipboardChange and nothing is added
handleClipboardChange(es, id, format, content, autoRead, maxRead) ==
    IF maxRead = "throws" THEN es
    ELSE EntriesAfterAdd(
             es, id,
             [WatcherDraft(format, content) EXCEPT
                 !.category =
                     asyncCategorizeContentReading(content, format, autoRead)],
             IF maxRead = "undefined" THEN 40 ELSE LimitSetting)

\* One run of checkClipboard in which the reads of the settings end as
\* autoRead and maxRead say.  handleClipboardChange returns normally also
\* when it caught a throw, so the remembered text and image hash are
\* updated in every case.  last records the two reads.
checkClipboardReading(written, autoRead, maxRead) ==
    LET currentText == clipboard.text
        currentImageHash == getImageHash(clipboard.image)
        textChanged == currentText # <<>> /\ currentText # lastClipboardContent
        imageData == saveImageToFile(clipboard.image, written)
        imageChanged ==
            /\ currentImageHash # <<>>
            /\ currentImageHash # lastClipboardImage
            /\ imageData # <<>>
        added == maxRead # "throws"
        entries1 ==
            IF textChanged
            THEN handleClipboardChange(entries, nextId, TextFormat,
                                       TextContent, autoRead, maxRead)
            ELSE entries
        nextId1 == IF textChanged /\ added THEN nextId + 1 ELSE nextId
        entries2 ==
            IF imageChanged
            THEN handleClipboardChange(entries1, nextId1, "image", imageData,
                                       autoRead, maxRead)
            ELSE entries1
        nextId2 == IF imageChanged /\ added THEN nextId1 + 1 ELSE nextId1
    IN  /\ running /\ interval
        /\ entries' = entries2
        /\ nextId' = nextId2
        /\ IF (textChanged \/ imageChanged) /\ added
           THEN debouncedSave
           ELSE UNCHANGED saveTimeout
        /\ lastClipboardContent' =
               IF textChanged THEN currentText ELSE lastClipboardContent
        /\ lastClipboardImage' =
               IF imageChanged THEN currentImageHash ELSE lastClipboardImage
        /\ issued' = issued
               \o (IF textChanged /\ added
                   THEN <<[id |-> nextId, by |-> "text"]>> ELSE <<>>)
               \o (IF imageChanged /\ added
                   THEN <<[id |-> nextId1, by |-> "image"]>> ELSE <<>>)
        /\ last' = [op |-> "tick", id |-> nextId2 - 1,
                    limit |-> IF maxRead = "undefined" THEN 40
                              ELSE LimitSetting,
                    pinned |-> FALSE,
                    ok |-> (textChanged \/ imageChanged) /\ added,
                    removed |-> 0,
                    autoRead |-> autoRead, maxRead |-> maxRead]
        /\ result' = <<>>
        /\ UNCHANGED <<running, disk, now, settings, runStart, clipboard,
                       isMonitoring, interval>>
        /\ UNCHANGED pasteVars

\* ipcMain.handle('settings:set') with key = 'monitorClipboard':
\* updateClipboardMonitoring(value)
SetMonitorClipboard(value) ==
    /\ running
    /\ settings' = [settings EXCEPT !.monitorClipboard = value]
    /\ IF value THEN start ELSE stop
    /\ last' = Op("settings:set", 0, 0, FALSE, TRUE, 0)
    /\ result' = <<>>
    /\ UNCHANGED <<running, entries, nextId, saveTimeout, disk, now, issued,
                   runStart, clipboard>>
    /\ UNCHANGED pasteVars

\* ipcMain.handle('settings:set') with key = 'autoCategories': the value is
\* stored and nothing else is done
SetAutoCategoriesSetting(value) ==
    /\ running
    /\ settings' = [settings EXCEPT !.autoCategories = value]
    /\ last' = Op("settings:set", 0, 0, FALSE, TRUE, 0)
    /\ result' = <<>>
    /\ UNCHANGED <<running, entries, nextId, saveTimeout, disk, now, issued,
                   runStart>>
    /\ UNCHANGED watcherVars

\* another application puts content on the clipboard
OsCopy(content) ==
    /\ clipboard' = content
    /\ UNCHANGED storeVars
    /\ UNCHANGED <<isMonitoring, interval, lastClipboardContent,
                   lastClipboardImage>>
    /\ pasteWrote' = FALSE
    /\ UNCHANGED <<platform, targetAppInfo, awaiting, resumeTimers, pasteCount,
                   loopVars>>

----------------------------------------------------------------------------
(* The paste path *)

\* the names under which storeFocusedApp and pasteToTargetApp recognise the
\* application itself on macOS: 'com.github.Electron' and app.getName()
DarwinSelf == {"com.github.Electron", "ClipSync"}

\* the process names that storeFocusedApp takes for the application itself
\* on Linux: 'clipsync', 'electron' and every name that contains 'clipsync',
\* compared in lower case
LinuxSelf == {"clipsync", "electron", "ClipSync"}

\* storeFocusedApp, run by the global hotkey before the window is shown, when
\* the system reports frontmost as the application in front ("" when it
\* reports nothing)
storeFocusedApp(frontmost) ==
    /\ running
    /\ IF platform = "darwin"
       THEN IF frontmost # "" /\ frontmost \notin DarwinSelf
            THEN targetAppInfo' = [set |-> TRUE, bundleId |-> frontmost]
            ELSE UNCHANGED targetAppInfo
       ELSE IF frontmost # "" /\ frontmost \notin LinuxSelf
            THEN targetAppInfo' = [set |-> TRUE, bundleId |-> frontmost]
            ELSE targetAppInfo' = [set |-> TRUE, bundleId |-> "fallback"]
    /\ UNCHANGED storeVars
    /\ UNCHANGED <<clipboard, isMonitoring, interval, lastClipboardContent,
                   lastClipboardImage, platform, awaiting, resumeTimers,
                   pasteCount, pasteWrote,
                   loopVars>>

Base64Alphabet ==
    <<"A", "B", "C", "D", "E", "F", "G", "H", "I", "J", "K", "L", "M", "N",
      "O", "P", "Q", "R", "S", "T", "U", "V", "W", "X", "Y", "Z", "a", "b",
      "c", "d", "e", "f", "g", "h", "i", "j", "k", "l", "m", "n", "o", "p",
      "q", "r", "s", "t", "u", "v", "w", "x", "y", "z", "0", "1", "2", "3",
      "4", "5", "6", "7", "8", "9", "+", "/">>

\* Buffer.from(base64Data, 'base64')
FromBase64(chars) ==
    LET value(c) == IF c = "=" THEN 0
                    ELSE (CHOOSE i \in 1..64 : Base64Alphabet[i] = c) - 1
        group(g) ==
            LET i == 4 * g + 1
                n == value(chars[i]) * 262144 + value(chars[i + 1]) * 4096
                     + value(chars[i + 2]) * 64 + value(chars[i + 3])
            IN  <<n \div 65536>>
                \o (IF chars[i + 2] # "=" THEN <<(n \div 256) % 256>> ELSE <<>>)
                \o (IF chars[i + 3] # "=" THEN <<n % 256>> ELSE <<>>)
        F[g \in 0..(Len(chars) \div 4)] ==
            IF 4 * g >= Len(chars) THEN <<>> ELSE group(g) \o F[g + 1]
    IN  F[0]

\* entry.content.startsWith('data:image/')
IsDataImage(content) ==
    content # <<>> /\ Head(content) = "data:image/png;base64,"

\* ClipSyncApp.extractTextFromHTML of index.ts
extractTextFromHTML(html) == Trim(SelectSeq(html, LAMBDA t : t \notin Tags))

\* ClipSyncApp.extractTextFromRTF of index.ts
extractTextFromRTF_Main(rtf) ==
    Trim(SelectSeq(rtf, LAMBDA t : t \notin RtfControlWords \union {"{", "}"}))

\* what pasteToTargetApp puts on the clipboard for the entry.  An image is
\* written as the image whose PNG encoding is the decoded buffer.
PasteWrite(entry) ==
    IF IsDataImage(entry.content)
    THEN [text |-> <<>>, html |-> <<>>, rtf |-> <<>>,
          image |-> FromBase64(Tail(entry.content))]
    ELSE IF entry.format = "html"
    THEN [text |-> IF Truthy(entry.preview) THEN entry.preview
                   ELSE extractTextFromHTML(entry.content),
          html |-> entry.content, rtf |-> <<>>, image |-> <<>>]
    ELSE IF entry.format = "rtf"
    THEN [text |-> IF Truthy(entry.preview) THEN entry.preview
                   ELSE extractTextFromRTF_Main(entry.content),
          html |-> <<>>, rtf |-> entry.content, image |-> <<>>]
    ELSE [text |-> entry.content, html |-> <<>>, rtf |-> <<>>,
          image |-> <<>>]

\* start() when isMonitoring is false and the clipboard holds cb
startOn(cb) ==
    /\ isMonitoring' = TRUE
    /\ lastClipboardContent' = cb.text
    /\ lastClipboardImage' = getImageHash(cb.image)
    /\ interval' = TRUE

\* the paste writes the clipboard before it stops the watcher
pasteToTargetApp_WriteFirst(entry, outcome) ==
    /\ running
    /\ clipboard' = PasteWrite(entry)
    /\ pasteWrote' = TRUE
    /\ UNCHANGED <<isMonitoring, interval, lastClipboardContent,
                   lastClipboardImage>>
    /\ awaiting' = awaiting + 1
    /\ pasteCount' = pasteCount + 1
    /\ last' = Op("paste", entry.id, 0, FALSE, isMonitoring, 0)
    /\ result' = <<>>
    /\ UNCHANGED <<running, entries, nextId, saveTimeout, disk, now, settings,
                   issued, runStart, platform, targetAppInfo, resumeTimers,
                   loopVars>>

\* ipcMain.handle('clipboard:paste'): pasteToTargetApp(entry) up to its
\* 100 ms delay.  outcome "ok": stop(), the write, hide(), and the run is
\* suspended.  outcome "throwBefore" / "throwAfter": a statement before / after
\* the write throws, and the catch block calls start().
pasteToTargetApp(entry, outcome) ==
    /\ running
    /\ clipboard' = IF outcome = "throwBefore" THEN clipboard
                    ELSE PasteWrite(entry)
    /\ pasteWrote' = IF outcome = "throwBefore" THEN pasteWrote ELSE TRUE
    /\ IF outcome = "ok"
       THEN /\ stop
            /\ awaiting' = awaiting + 1
       ELSE /\ startOn(clipboard')
            /\ UNCHANGED awaiting
    /\ pasteCount' = pasteCount + 1
    /\ last' = Op("paste", entry.id, 0, FALSE, isMonitoring, 0)
    /\ result' = <<>>
    /\ UNCHANGED <<running, entries, nextId, saveTimeout, disk, now, settings,
                   issued, runStart, platform, targetAppInfo, resumeTimers,
                   loopVars>>

\* the early return of a paste never arms the timer that calls start()
PasteAfterDelay_NoResume ==
    /\ running
    /\ awaiting > 0
    /\ awaiting' = awaiting - 1
    /\ UNCHANGED resumeTimers
    /\ UNCHANGED storeVars
    /\ UNCHANGED <<clipboard, isMonitoring, interval, lastClipboardContent,
                   lastClipboardImage, platform, targetAppInfo, pasteCount,
                   pasteWrote, loopVars>>

\* pasteToTargetApp after its 100 ms delay: on macOS a target that is the
\* application itself makes it return; otherwise it has the keystroke sent
\* and arms the 500 ms timer that calls start()
PasteAfterDelay ==
    /\ running
    /\ awaiting > 0
    /\ awaiting' = awaiting - 1
    /\ IF /\ platform = "darwin"
          /\ targetAppInfo.set
          /\ targetAppInfo.bundleId # ""
          /\ targetAppInfo.bundleId \in DarwinSelf
       THEN UNCHANGED resumeTimers
       ELSE resumeTimers' = resumeTimers + 1
    /\ UNCHANGED storeVars
    /\ UNCHANGED <<clipboard, isMonitoring, interval, lastClipboardContent,
                   lastClipboardImage, platform, targetAppInfo, pasteCount,
                   pasteWrote, loopVars>>

\* the 500 ms timer of a paste fires: start(); last.ok records that the
\* watcher was stopped until then
ResumeTimer ==
    /\ running
    /\ resumeTimers > 0
    /\ resumeTimers' = resumeTimers - 1
    /\ start
    /\ last' = Op("resume", 0, 0, FALSE, ~isMonitoring, 0)
    /\ result' = <<>>
    /\ UNCHANGED <<running, entries, nextId, saveTimeout, disk, now, settings,
                   issued, runStart>>
    /\ UNCHANGED <<clipboard, platform, targetAppInfo, awaiting, pasteCount,
                   pasteWrote, loopVars>>

----------------------------------------------------------------------------
(* Start and end of a run *)

\* close() cancels the pending save and writes nothing
Quit_NoFinalSave ==
    /\ running
    /\ saveTimeout' = FALSE
    /\ UNCHANGED disk
    /\ running' = FALSE
    /\ entries' = <<>>
    /\ nextId' = 1
    /\ isMonitoring' = FALSE
    /\ interval' = FALSE
    /\ lastClipboardContent' = <<>>
    /\ lastClipboardImage' = <<>>
    /\ last' = Op("close", 0, 0, FALSE, saveTimeout, 0)
    /\ result' = <<>>
    /\ targetAppInfo' = NoTarget
    /\ awaiting' = 0
    /\ resumeTimers' = 0
    /\ UNCHANGED <<now, settings, issued, runStart, clipboard, platform,
                   pasteCount, pasteWrote,
                   loopVars>>

\* cleanup() when the application quits: stop() of the watcher, close() of
\* the store (the pending save is cancelled, saveData runs); the process
\* ends.  last.ok records that a save was pending.
Quit ==
    /\ running
    /\ saveTimeout' = FALSE
    /\ disk' = saveData(entries)
    /\ running' = FALSE
    /\ entries' = <<>>
    /\ nextId' = 1
    /\ isMonitoring' = FALSE
    /\ interval' = FALSE
    /\ lastClipboardContent' = <<>>
    /\ lastClipboardImage' = <<>>
    /\ last' = Op("close", 0, 0, FALSE, saveTimeout, 0)
    /\ result' = <<>>
    /\ targetAppInfo' = NoTarget
    /\ awaiting' = 0
    /\ resumeTimers' = 0
    /\ UNCHANGED <<now, settings, issued, runStart, clipboard, platform,
                   pasteCount, pasteWrote,
                   loopVars>>

\* the application is started again on the same user data directory: the
\* store is constructed from the file, setupClipboardMonitoring starts the
\* watcher unless monitorClipboard is false
Launch ==
    /\ ~running
    /\ Construct(disk)
    /\ IF settings.monitorClipboard # FALSE
       THEN start
       ELSE UNCHANGED <<isMonitoring, interval, lastClipboardContent,
                        lastClipboardImage>>
    /\ last' = NoOp
    /\ result' = <<>>
    /\ runStart' = Len(issued)
    /\ UNCHANGED <<disk, now, settings, issued, clipboard>>
    /\ UNCHANGED pasteVars

\* a millisecond passes
ClockTick ==
    /\ now < MaxClock
    /\ now' = now + 1
    /\ UNCHANGED <<running, entries, nextId, saveTimeout, disk,
                   settings, last, result, issued, runStart>>
    /\ UNCHANGED watcherVars

----------------------------------------------------------------------------
(* Specification of the store under its callers *)

Init ==
    /\ disk \in InitialFiles
    /\ running = TRUE
    /\ entries = loadData(disk)
    /\ nextId = updateNextId(loadData(disk))
    /\ saveTimeout = FALSE
    /\ now = 0
    /\ settings = DEFAULT_SETTINGS
    /\ last = NoOp
    /\ result = <<>>
    /\ issued = <<>>
    /\ runStart = 0
    /\ clipboard = EmptyClipboard
    /\ isMonitoring = TRUE
    /\ interval = TRUE
    /\ lastClipboardContent = EmptyClipboard.text
    /\ lastClipboardImage = getImageHash(EmptyClipboard.image)
    /\ platform = "darwin"
    /\ NoPaste

Add ==
    /\ Len(issued) < MaxAdds
    /\ \E pinned \in BOOLEAN : ClipboardAdd(Draft(<<"a">>, pinned))
    /\ UNCHANGED watcherVars

Update ==
    /\ \E id \in UserIds, u \in Patches : updateClipboardEntry(id, u)
    /\ UNCHANGED watcherVars

Delete ==
    /\ \E id \in UserIds : deleteClipboardEntry(id)
    /\ UNCHANGED watcherVars

Pin ==
    /\ \E id \in UserIds : pinClipboardEntry(id)
    /\ UNCHANGED watcherVars

Clear ==
    /\ clearClipboardHistory
    /\ UNCHANGED watcherVars

SetLimit ==
    /\ \E v \in Limits : SettingsSet(v)
    /\ UNCHANGED watcherVars

Next ==
    \/ Add
    \/ Update
    \/ Delete
    \/ Pin
    \/ Clear
    \/ SetLimit
    \/ ClockTick


Spec == Init /\ [][Next]_vars

----------------------------------------------------------------------------
(* Specification of the store over several runs of the application, from  *)
(* its first launch on an empty user data directory                       *)

InitLifetime ==
    /\ disk = NoFile
    /\ running = TRUE
    /\ entries = loadData(disk)
    /\ nextId = updateNextId(loadData(disk))
    /\ saveTimeout = FALSE
    /\ now = 0
    /\ settings = DEFAULT_SETTINGS
    /\ last = NoOp
    /\ result = <<>>
    /\ issued = <<>>
    /\ runStart = 0
    /\ clipboard = EmptyClipboard
    /\ isMonitoring = TRUE
    /\ interval = TRUE
    /\ lastClipboardContent = EmptyClipboard.text
    /\ lastClipboardImage = getImageHash(EmptyClipboard.image)
    /\ platform = "darwin"
    /\ NoPaste

NextLifetime ==
    \/ Add
    \/ Update
    \/ Delete
    \/ Pin
    \/ Clear
    \/ FlushTimer
    \/ ClockTick
    \/ Quit
    \/ Launch

SpecLifetime == InitLifetime /\ [][NextLifetime]_vars

----------------------------------------------------------------------------------------------------------------------------------------
(* Specification of the store under queries: the store is loaded from a    *)
(* file, entries are pinned, unpinned and annotated, and the store is      *)
(* queried                                                                 *)

Rec(id, content, format, createdAt, isPinned, category, note) ==
    [id          |-> id,
     content     |-> content,
     contentType |-> IF format = "html" THEN "rich-text" ELSE "text",
     format      |-> format,
     preview     |-> content,
     createdAt   |-> createdAt,
     updatedAt   |-> createdAt,
     isPinned    |-> isPinned,
     category    |-> category,
     usageCount  |-> 0,
     note        |-> note]

UrlCategory == <<"U", "R", "L", "s">>

\* five records, two of them pinned, some created in the same millisecond
MixedFile ==
    [exists  |-> TRUE,
     entries |-> <<Rec(5, <<"a", "B">>, "text", -1, FALSE, TextCategory,
                       Undefined),
                   Rec(4, <<"b">>, "text", -1, TRUE, TextCategory, Undefined),
                   Rec(3, <<"c">>, "text", -2, FALSE, UrlCategory, <<"A">>),
                   Rec(2, <<"A", "b">>, "html", -3, FALSE, Undefined, Undefined),
                   Rec(1, <<"a">>, "text", -3, TRUE, TextCategory, Undefined)>>]

\* the same records written while the wall clock was set back between
\* inserts: the order of the array is not the order of createdAt
SkewedFile ==
    [exists  |-> TRUE,
     entries |-> <<Rec(5, <<"a", "B">>, "text", -3, FALSE, TextCategory,
                       Undefined),
                   Rec(4, <<"b">>, "text", -4, TRUE, TextCategory, Undefined),
                   Rec(3, <<"c">>, "text", -2, FALSE, UrlCategory, <<"A">>),
                   Rec(2, <<"A", "b">>, "html", -1, FALSE, Undefined, Undefined),
                   Rec(1, <<"a">>, "text", -3, TRUE, TextCategory, Undefined)>>]

\* a store at the largest limit: DefaultLimit non-pinned records and an older
\* pinned one, one record per millisecond
FullFile ==
    [exists  |-> TRUE,
     entries |-> [i \in 1..(DefaultLimit + 1) |->
                    LET id == DefaultLimit + 2 - i
                    IN  Rec(id, <<"a">>, "text", id - DefaultLimit - 2, id = 1,
                            TextCategory, Undefined)]]

QueryFiles == {MixedFile, SkewedFile, FullFile}

\* the options of the queries: a search alone, pages, and filters
SearchQueries ==
    {<<>>, <<"a">>, <<"A">>, <<"B">>, <<"t", "E">>, <<"N">>, <<"z">>}

QueryOptions ==
    {[searchQuery |-> q] : q \in SearchQueries}
    \union {[limit |-> l, offset |-> o] : l \in 0..MaxPage, o \in 0..MaxPage}
    \union {[limit |-> l] : l \in 0..MaxPage}
    \union {[offset |-> o] : o \in 0..MaxPage}
    \union {[category |-> c, limit |-> l] :
               c \in {All, <<"T", "E", "X", "T">>, <<"u", "r", "l", "s">>},
               l \in {1}}
    \union {[contentType |-> "html"],
            [contentType |-> "text", searchQuery |-> <<"b">>, offset |-> 1]}

InitQuery ==
    /\ disk \in QueryFiles
    /\ running = TRUE
    /\ entries = loadData(disk)
    /\ nextId = updateNextId(loadData(disk))
    /\ saveTimeout = FALSE
    /\ now = 0
    /\ settings = DEFAULT_SETTINGS
    /\ last = NoOp
    /\ result = <<>>
    /\ issued = <<>>
    /\ runStart = 0
    /\ clipboard = EmptyClipboard
    /\ isMonitoring = TRUE
    /\ interval = TRUE
    /\ lastClipboardContent = EmptyClipboard.text
    /\ lastClipboardImage = getImageHash(EmptyClipboard.image)
    /\ platform = "darwin"
    /\ NoPaste

GetHistory ==
    /\ \E options \in QueryOptions : Query(options)
    /\ UNCHANGED watcherVars

NextQuery ==
    \/ Add
    \/ GetHistory
    \/ Update
    \/ Pin

SpecQuery == InitQuery /\ [][NextQuery]_vars

----------------------------------------------------------------------------
(* Specification of one run of the application with its watcher: other     *)
(* applications copy, the poll timer fires, the renderer adds entries and  *)
(* switches monitoring on and off                                          *)

\* what other applications put on the clipboard: a plain text, a text with
\* formatted HTML, a text with RTF beside an image, and an image alone
Clipboards ==
    {[text |-> <<"a">>, html |-> <<>>, rtf |-> <<>>, image |-> <<>>],
     [text |-> <<"b">>, html |-> <<"<b>", "b", "</b>">>, rtf |-> <<>>,
      image |-> <<>>],
     [text |-> <<"c">>, html |-> <<>>,
      rtf |-> <<"{", "\\rtf1", "}", "\\b", "c">>, image |-> <<137, 80, 7>>],
     [text |-> <<>>, html |-> <<>>, rtf |-> <<>>, image |-> <<137, 80>>]}

InitWatcher ==
    /\ disk = NoFile
    /\ running = TRUE
    /\ entries = loadData(disk)
    /\ nextId = updateNextId(loadData(disk))
    /\ saveTimeout = FALSE
    /\ now = 0
    /\ settings = DEFAULT_SETTINGS
    /\ last = NoOp
    /\ result = <<>>
    /\ issued = <<>>
    /\ runStart = 0
    /\ clipboard = EmptyClipboard
    /\ isMonitoring = TRUE
    /\ interval = TRUE
    /\ lastClipboardContent = EmptyClipboard.text
    /\ lastClipboardImage = getImageHash(EmptyClipboard.image)
    /\ platform = "darwin"
    /\ NoPaste

Copy == \E content \in Clipboards : OsCopy(content)

Tick ==
    /\ Len(issued) < MaxSubmits
    /\ \E written \in BOOLEAN : checkClipboard(written)

Submit ==
    /\ Len(issued) < MaxSubmits
    /\ ClipboardAdd(Draft(<<"a">>, FALSE))
    /\ UNCHANGED watcherVars

SetMonitoring == \E value \in BOOLEAN : SetMonitorClipboard(value)

NextWatcher ==
    \/ Copy
    \/ Tick
    \/ Submit
    \/ SetMonitoring

SpecWatcher == InitWatcher /\ [][NextWatcher]_vars

----------------------------------------------------------------------------
(* Specification of the watcher from the launch of the application: the    *)
(* clipboard holds whatever it holds when the application is launched,     *)
(* other applications copy, the poll timer fires, monitoring is switched   *)
(* on and off, the application quits and is launched again                 *)

InitStart ==
    /\ disk = NoFile
    /\ running = FALSE
    /\ entries = <<>>
    /\ nextId = 1
    /\ saveTimeout = FALSE
    /\ now = 0
    /\ settings = DEFAULT_SETTINGS
    /\ last = NoOp
    /\ result = <<>>
    /\ issued = <<>>
    /\ runStart = 0
    /\ clipboard \in Clipboards \union {EmptyClipboard}
    /\ isMonitoring = FALSE
    /\ interval = FALSE
    /\ lastClipboardContent = <<>>
    /\ lastClipboardImage = <<>>
    /\ platform = "darwin"
    /\ NoPaste

NextStart ==
    \/ Launch
    \/ Copy
    \/ Tick
    \/ SetMonitoring
    \/ Quit

SpecStart == InitStart /\ [][NextStart]_vars

----------------------------------------------------------------------------
(* Specification of the image track: other applications put images on the  *)
(* clipboard and the poll timer fires; the image files are written without *)
(* error                                                                    *)

\* a PNG encoding of 101 bytes
ImageA == [i \in 1..101 |-> IF i = 1 THEN 137 ELSE IF i = 2 THEN 80 ELSE 0]

\* another image: the same bytes except for the last one
ImageB == [ImageA EXCEPT ![101] = 1]

Images == {ImageA, ImageB, <<137, 80>>, <<137, 80, 7>>}

ImageClipboards ==
    {[text |-> <<>>, html |-> <<>>, rtf |-> <<>>, image |-> image] :
        image \in Images}

InitImages ==
    /\ disk = NoFile
    /\ running = TRUE
    /\ entries = loadData(disk)
    /\ nextId = updateNextId(loadData(disk))
    /\ saveTimeout = FALSE
    /\ now = 0
    /\ settings = DEFAULT_SETTINGS
    /\ last = NoOp
    /\ result = <<>>
    /\ issued = <<>>
    /\ runStart = 0
    /\ clipboard = EmptyClipboard
    /\ isMonitoring = TRUE
    /\ interval = TRUE
    /\ lastClipboardContent = EmptyClipboard.text
    /\ lastClipboardImage = getImageHash(EmptyClipboard.image)
    /\ platform = "darwin"
    /\ NoPaste

CopyImage == \E content \in ImageClipboards : OsCopy(content)

ImageTick ==
    /\ Len(issued) < MaxSubmits
    /\ checkClipboard(TRUE)

NextImages ==
    \/ CopyImage
    \/ ImageTick

SpecImages == InitImages /\ [][NextImages]_vars

----------------------------------------------------------------------------
(* Specification of the categories: other applications copy texts of every *)
(* detected kind, markup and images, the poll timer fires, and the         *)
(* autoCategories setting is switched                                      *)

CategoryClipboards ==
    Clipboards
        \union {[text |-> t, html |-> <<>>, rtf |-> <<>>, image |-> <<>>] :
                   t \in UrlTexts \union EmailTexts \union PhoneTexts
                             \union CodeTexts}

InitCategory ==
    /\ disk = NoFile
    /\ running = TRUE
    /\ entries = loadData(disk)
    /\ nextId = updateNextId(loadData(disk))
    /\ saveTimeout = FALSE
    /\ now = 0
    /\ settings = DEFAULT_SETTINGS
    /\ last = NoOp
    /\ result = <<>>
    /\ issued = <<>>
    /\ runStart = 0
    /\ clipboard = EmptyClipboard
    /\ isMonitoring = TRUE
    /\ interval = TRUE
    /\ lastClipboardContent = EmptyClipboard.text
    /\ lastClipboardImage = getImageHash(EmptyClipboard.image)
    /\ platform = "darwin"
    /\ NoPaste

CopyAny == \E content \in CategoryClipboards : OsCopy(content)

CategoryTick ==
    /\ Len(entries) < MaxAdds
    /\ \E written \in BOOLEAN : checkClipboard(written)

SetAutoCategories == \E value \in BOOLEAN : SetAutoCategoriesSetting(value)

NextCategory ==
    \/ CopyAny
    \/ CategoryTick
    \/ SetAutoCategories

SpecCategory == InitCategory /\ [][NextCategory]_vars

----------------------------------------------------------------------------
(* Specification of the previews: other applications copy texts and markup *)
(* of 100 characters and of more, and the poll timer fires                 *)

\* a text of n characters
TextOf(n) == [i \in 1..n |-> IF i % 2 = 1 THEN "a" ELSE "b"]

LongLen == 104

PreviewClipboards ==
    {[text |-> TextOf(100), html |-> <<>>, rtf |-> <<>>, image |-> <<>>],
     [text |-> TextOf(LongLen), html |-> <<>>, rtf |-> <<>>, image |-> <<>>],
     [text |-> <<"h">> \o TextOf(LongLen),
      html |-> <<"<b>", "h">> \o TextOf(LongLen) \o <<"</b>">>,
      rtf |-> <<>>, image |-> <<>>],
     [text |-> <<"r">> \o TextOf(LongLen), html |-> <<>>,
      rtf |-> <<"{", "\\rtf1", "}", "\\b", "r">> \o TextOf(LongLen),
      image |-> <<>>],
     [text |-> <<>>, html |-> <<>>, rtf |-> <<>>, image |-> <<137, 80>>]}

InitPreview ==
    /\ disk = NoFile
    /\ running = TRUE
    /\ entries = loadData(disk)
    /\ nextId = updateNextId(loadData(disk))
    /\ saveTimeout = FALSE
    /\ now = 0
    /\ settings = DEFAULT_SETTINGS
    /\ last = NoOp
    /\ result = <<>>
    /\ issued = <<>>
    /\ runStart = 0
    /\ clipboard = EmptyClipboard
    /\ isMonitoring = TRUE
    /\ interval = TRUE
    /\ lastClipboardContent = EmptyClipboard.text
    /\ lastClipboardImage = getImageHash(EmptyClipboard.image)
    /\ platform = "darwin"
    /\ NoPaste

CopyLong == \E content \in PreviewClipboards : OsCopy(content)

PreviewTick ==
    /\ Len(entries) < MaxAdds
    /\ \E written \in BOOLEAN : checkClipboard(written)

NextPreview ==
    \/ CopyLong
    \/ PreviewTick

SpecPreview == InitPreview /\ [][NextPreview]_vars

----------------------------------------------------------------------------
(* Specification of the watcher under a settings provider that may return  *)
(* undefined or throw: other applications copy, the poll timer fires, the  *)
(* autoCategories setting is switched                                      *)

\* a URL, a plain text and an image
SettingsClipboards ==
    {[text |-> t, html |-> <<>>, rtf |-> <<>>, image |-> <<>>] :
        t \in UrlTexts \union {<<"a">>}}
        \union {[text |-> <<>>, html |-> <<>>, rtf |-> <<>>,
                 image |-> <<137, 80>>]}

CopySome == \E content \in SettingsClipboards : OsCopy(content)

TickReading ==
    /\ Len(issued) < MaxAdds
    /\ \E written \in BOOLEAN, autoRead \in SettingsReads,
          maxRead \in SettingsReads :
           checkClipboardReading(written, autoRead, maxRead)

NextSettings ==
    \/ CopySome
    \/ TickReading
    \/ SetAutoCategories

SpecSettings == InitCategory /\ [][NextSettings]_vars

----------------------------------------------------------------------------
(* Specification of the paste path: the history holds a text, an HTML, an  *)
(* RTF and an image entry; the user pastes entries while other             *)
(* applications copy, the poll timer fires and monitoring is switched      *)

PasteFile ==
    [exists  |-> TRUE,
     entries |-> <<[Rec(4, saveImageToFile(<<137, 80>>, TRUE), "image", -1,
                        FALSE, <<"I", "m", "a", "g", "e", "s">>, Undefined)
                       EXCEPT !.contentType = "image",
                              !.preview = <<"[", "I", "m", "a", "g", "e", "]">>],
                   [Rec(3, <<"{", "\\rtf1", "}", "\\b", "c">>, "rtf", -2, FALSE,
                        <<"R", "i", "c", "h", " ", "T", "e", "x", "t">>,
                        Undefined)
                       EXCEPT !.contentType = "rich-text", !.preview = <<"c">>],
                   [Rec(2, <<"<b>", "b", "</b>">>, "html", -3, FALSE,
                        <<"R", "i", "c", "h", " ", "T", "e", "x", "t">>,
                        Undefined)
                       EXCEPT !.preview = <<"b">>],
                   Rec(1, <<"a">>, "text", -4, FALSE, TextCategory, Undefined)>>]

Platforms == {"darwin", "linux"}

\* the applications that can be in front when the hotkey is pressed
FrontmostApps == {"com.github.Electron", "com.apple.TextEdit", "electron", ""}

PasteOutcomes == {"ok", "throwBefore", "throwAfter"}

InitPaste ==
    /\ disk = PasteFile
    /\ running = TRUE
    /\ entries = loadData(disk)
    /\ nextId = updateNextId(loadData(disk))
    /\ saveTimeout = FALSE
    /\ now = 0
    /\ settings = DEFAULT_SETTINGS
    /\ last = NoOp
    /\ result = <<>>
    /\ issued = <<>>
    /\ runStart = 0
    /\ clipboard = EmptyClipboard
    /\ isMonitoring = TRUE
    /\ interval = TRUE
    /\ lastClipboardContent = EmptyClipboard.text
    /\ lastClipboardImage = getImageHash(EmptyClipboard.image)
    /\ platform \in Platforms
    /\ NoPaste

Hotkey == \E frontmost \in FrontmostApps : storeFocusedApp(frontmost)

Paste ==
    /\ pasteCount < MaxPastes
    /\ \E i \in 1..Len(entries), outcome \in PasteOutcomes :
           pasteToTargetApp(entries[i], outcome)

PasteTick ==
    /\ Len(issued) < MaxPastes
    /\ \E written \in BOOLEAN : checkClipboard(written)

PasteCopy ==
    OsCopy([text |-> <<"a">>, html |-> <<>>, rtf |-> <<>>, image |-> <<>>])

NextPaste ==
    \/ Hotkey
    \/ Paste
    \/ PasteAfterDelay
    \/ ResumeTimer
    \/ PasteTick
    \/ PasteCopy
    \/ SetMonitoring

SpecPaste == InitPaste /\ [][NextPaste]_vars

\* the delay of a paste ends and its timer fires
SpecPasteLive ==
    SpecPaste /\ WF_vars(PasteAfterDelay) /\ WF_vars(ResumeTimer)

----------------
(* Properties of eviction, pinning and clear, checked under Spec *)

Range(es) == {es[i] : i \in 1..Len(es)}

\* the clamp of a limit to [20, 100], written out
Clamped(m) == IF m < 20 THEN 20 ELSE IF m > 100 THEN 100 ELSE m

\* C1: right after an insert of a non-pinned draft made with a limit M,
\* 20 <= M <= 100, the store holds at most M non-pinned entries.
C1_EvictionInvariant ==
    (last.op = "add" /\ ~last.pinned /\ last.limit \in 20..100)
        => getNonPinnedEntryCount <= last.limit

\* a non-pinned insert with limit 20 has removed an entry and left 20
C1_Witness ==
    /\ last.op = "add" /\ ~last.pinned /\ last.limit = 20
    /\ last.removed >= 1
    /\ getNonPinnedEntryCount = 20

\* C2: a pinned entry leaves the store only in a delete of its own id, and
\* insert, settings:set and clear never lower the number of pinned entries.
C2_PinProtection ==
    [][/\ \A i \in 1..Len(entries) :
             (entries[i].isPinned /\ entries[i].id \notin Ids(entries'))
                 => (last'.op = "delete" /\ last'.id = entries[i].id)
       /\ last'.op \in {"add", "settings:set", "clear"}
             => Len(Pinned(entries')) >= Len(Pinned(entries))]_vars

\* an eviction has removed entries while an older pinned entry is still stored
C2_Witness ==
    /\ last.op \in {"add", "settings:set"}
    /\ last.removed >= 1
    /\ \E p \in Range(Pinned(entries)) :
           \A e \in Range(NonPinned(entries)) : p.createdAt < e.createdAt

\* C3: an eviction removes the earliest-inserted non-pinned entries: every
\* removed entry was inserted (has a smaller id) before every non-pinned
\* entry that stays, also when several entries carry the same createdAt.
C3_FifoByInsertion ==
    [][(last'.op \in {"add", "settings:set"} /\ last'.removed >= 1)
          => LET before == {e.id : e \in Range(NonPinned(entries))} \union
                           (IF last'.op = "add" /\ ~last'.pinned
                            THEN {last'.id} ELSE {})
                 removed == before \ Ids(entries')
             IN  \A r \in removed, k \in before \ removed : r < k]_vars

\* C4 as stated: after any insert, pinned draft or not, the number of
\* non-pinned entries is at most the clamped limit of that insert.
C4_AfterAnyInsert ==
    last.op = "add" => getNonPinnedEntryCount <= Clamped(last.limit)

\* C4 amended: after an insert of a non-pinned draft the number of
\* non-pinned entries is at most the clamped limit of that insert.
C4_AfterNonPinnedInsert ==
    (last.op = "add" /\ ~last.pinned)
        => getNonPinnedEntryCount <= Clamped(last.limit)

\* a non-pinned insert with the out-of-range limit 5 has removed two entries:
\* an unpin had taken the store over the limit before
C4_Witness ==
    /\ last.op = "add" /\ ~last.pinned /\ last.limit = 5
    /\ last.removed = 2
    /\ getNonPinnedEntryCount = 20

C6_ClearKeepsPinned ==
    [][last'.op = "clear"
          => /\ \A e \in Range(entries) :
                    e \in Range(entries') <=> e.isPinned
             /\ Range(entries') \subseteq Range(entries)
             /\ Len(entries') = Len(Pinned(entries))
             /\ \A i, j \in 1..Len(entries') :
                    i < j => \E a, b \in 1..Len(entries) :
                               /\ a < b
                               /\ entries[a] = entries'[i]
                               /\ entries[b] = entries'[j]]_vars

\* a clear has removed non-pinned entries and left pinned ones
C6_Witness ==
    /\ last.op = "clear"
    /\ last.removed >= 1
    /\ getPinnedEntryCount >= 1
    /\ getNonPinnedEntryCount = 0

----------------------------------------------------------------------------
(* Properties of the ids, checked under SpecLifetime *)

(* Properties of the query, checked under SpecQuery *)

\* q, compared without case, is a substring of one of the four text fields
SearchHit(e, q) ==
    \E f \in {"content", "preview", "category", "note"} :
        e[f] # Undefined /\ Includes(ToLowerCase(e[f]), ToLowerCase(q))

\* the entry passes the filters of the options
Matches(e, o) ==
    /\ ("category" \in DOMAIN o /\ o.category \notin {<<>>, All})
           => /\ e.category # Undefined
              /\ ToLowerCase(e.category) = ToLowerCase(o.category)
    /\ ("contentType" \in DOMAIN o /\ o.contentType # "")
           => e.format = o.contentType
    /\ "searchQuery" \in DOMAIN o => SearchHit(e, o.searchQuery)

LimitOf(o) == IF "limit" \in DOMAIN o THEN o.limit ELSE DefaultLimit
OffsetOf(o) == IF "offset" \in DOMAIN o THEN o.offset ELSE 0

\* C7: a query returns every pinned match, newest first, and after them the
\* non-pinned matches, newest first, from position offset up to position
\* offset + limit of their order; no pinned match is dropped and no
\* non-pinned entry comes before a pinned one.
C7_PinnedFirstPaged ==
    last.op = "query" =>
        LET o == last.options
            M == {e \in Range(entries) : Matches(e, o)}
            PM == {e \in M : e.isPinned}
            NM == {e \in M : ~e.isPinned}
            p == Cardinality(PM)
            n == Len(result) - p
        IN  /\ n = Max(0, Min(LimitOf(o), Cardinality(NM) - OffsetOf(o)))
            /\ {result[i] : i \in 1..p} = PM
            /\ \A i \in (p + 1)..Len(result) : result[i] \in NM
            /\ \A i, j \in 1..Len(result) :
                   (i < j /\ result[i].isPinned = result[j].isPinned)
                       => result[i].createdAt >= result[j].createdAt
            /\ \A i, j \in 1..Len(result) :
                   i # j => result[i].id # result[j].id
            /\ \A k \in 1..n :
                   LET c == result[p + k].createdAt
                   IN  /\ Cardinality({e \in NM : e.createdAt > c})
                              <= OffsetOf(o) + k - 1
                       /\ Cardinality({e \in NM : e.createdAt >= c})
                              >= OffsetOf(o) + k

\* a page from the middle of the non-pinned matches, behind two pinned
\* matches, of a store whose array is not in the order of createdAt
C7_Witness ==
    /\ last.op = "query"
    /\ {"limit", "offset"} \subseteq DOMAIN last.options
    /\ last.options.offset >= 1 /\ last.options.limit >= 1
    /\ Len(Pinned(result)) >= 2
    /\ Len(NonPinned(result)) = last.options.limit
    /\ Len(NonPinned(entries)) > last.options.offset + last.options.limit
    /\ \E i, j \in 1..Len(entries) :
           i < j /\ entries[i].createdAt < entries[j].createdAt

\* C8 as stated: a query with a search text alone returns exactly the stored
\* entries that the text hits.
C8_SearchExact ==
    (last.op = "query" /\ DOMAIN last.options = {"searchQuery"})
        => Range(result) = {e \in Range(entries) :
                               SearchHit(e, last.options.searchQuery)}

\* C8 amended: a query with a search text alone returns only entries that
\* the text hits, every pinned one of them, and of the non-pinned ones the
\* DefaultLimit newest; none is left out when at most DefaultLimit
\* non-pinned entries are hit.
C8_SearchWithinLimit ==
    (last.op = "query" /\ DOMAIN last.options = {"searchQuery"})
        => LET M == {e \in Range(entries) :
                        SearchHit(e, last.options.searchQuery)}
               NM == {e \in M : ~e.isPinned}
               R == Range(result)
           IN  /\ R \subseteq M
               /\ Len(result) = Cardinality(R)
               /\ {e \in M : e.isPinned} \subseteq R
               /\ Cardinality(R \intersect NM)
                      = Min(DefaultLimit, Cardinality(NM))
               /\ \A r \in R \intersect NM, x \in NM \ R :
                      r.createdAt >= x.createdAt
               /\ Cardinality(NM) <= DefaultLimit => R = M

\* a search has returned some entries and left others out, and one of the
\* returned entries is hit only because case is ignored
C8_Witness ==
    /\ last.op = "query" /\ DOMAIN last.options = {"searchQuery"}
    /\ last.options.searchQuery # <<>>
    /\ result # <<>>
    /\ Range(entries) \ Range(result) # {}
    /\ \E r \in Range(result) :
           \A f \in {"content", "preview", "category", "note"} :
               r[f] = Undefined \/ ~Includes(r[f], last.options.searchQuery)


\* C9: within one run, ids are handed out strictly increasing in the order
\* of submission, whichever of the text track, the image track and an
\* explicit add submits, and no two stored entries hold the same id.
C9_IdsIncrease ==
    /\ \A i, j \in (runStart + 1)..Len(issued) :
           i < j => issued[i].id < issued[j].id
    /\ \A i, j \in 1..Len(entries) : i # j => entries[i].id # entries[j].id

\* one run has stored entries of the text track, the image track and an add
C9_Witness ==
    /\ {issued[i].by : i \in (runStart + 1)..Len(issued)}
           = {"text", "image", "add"}
    /\ Len(entries) = 3
    /\ \E i \in 1..(Len(issued) - 1) :
           issued[i].by = "text" /\ issued[i + 1].by = "image"

\* C10: no id is handed out twice in the lifetime of the store, whatever was
\* deleted or evicted and however often the store was closed and loaded.
C10_IdNeverReused ==
    \A i, j \in 1..Len(issued) : i # j => issued[i].id # issued[j].id

----------------
(* Properties of the paste path, checked under SpecPaste and SpecPasteLive *)

\* C11: the watcher never re-captures the write of a paste: whenever a poll
\* tick has just created an entry, the clipboard content it captured was put
\* there by another application and not by a paste (pasteWrote tells that the
\* content now on the clipboard is the write of a paste), for entries of
\* every format and every interleaving of pastes, ticks, timers and copies
C11_NoRecapture ==
    (last.op = "tick" /\ last.ok) => ~pasteWrote

\* a paste wrote the clipboard, its timer restarted the watcher, and a tick
\* of the running watcher found nothing new
C11_Witness ==
    /\ pasteWrote
    /\ pasteCount > 0
    /\ awaiting = 0 /\ resumeTimers = 0
    /\ isMonitoring
    /\ last.op = "tick" /\ ~last.ok
    /\ clipboard.image # <<>>

----------------
(* Properties of the baseline of the watcher, checked under SpecStart *)

\* the watcher runs and what it saw last is what the clipboard holds
InSync ==
    /\ isMonitoring
    /\ lastClipboardContent = clipboard.text
    /\ lastClipboardImage = getImageHash(clipboard.image)

\* the entries that the watcher created in the step
CreatedByWatcher ==
    {i \in (Len(issued) + 1)..Len(issued') :
        issued'[i].by \in {"text", "image"}}

\* C13: start() takes the plain text and the image hash of the clipboard as
\* the baseline: every step that starts the watcher (at the launch of the
\* application, or when monitoring is switched on again) leaves it in sync
\* with the clipboard, and as long as the clipboard does not change and the
\* watcher runs it stays in sync and creates no entry
C13_BaselineAtStart ==
    [][/\ (~isMonitoring /\ isMonitoring') => InSync'
       /\ (InSync /\ clipboard' = clipboard /\ isMonitoring')
              => (InSync' /\ CreatedByWatcher = {})]_vars

\* the application was launched with a text and an image on the clipboard;
\* the watcher runs, a tick has found nothing new and the history is empty
C13_Witness ==
    /\ running /\ isMonitoring
    /\ clipboard.text # <<>> /\ clipboard.image # <<>>
    /\ last.op = "tick" /\ ~last.ok
    /\ issued = <<>>
    /\ entries = <<>>

----------------
(* Properties of the image track, checked under SpecImages *)

\* the image entries of a collection, newest first
ImageEntries(es) == SelectSeq(es, LAMBDA e : e.format = "image")

\* the payload under which the watcher stores the image
Payload(image) == saveImageToFile(image, TRUE)

\* C14: image change detection: at a poll tick with an image on the
\* clipboard, if the image has the bytes of the image captured last, no entry
\* is created; if it is another image (or the first), exactly one entry with
\* its payload is created, and its hash differs from the hash of the image
\* captured last
C14_ImageChangeDetection ==
    [][(last'.op = "tick" /\ clipboard' = clipboard /\ clipboard.image # <<>>)
          => LET before == ImageEntries(entries)
                 after  == ImageEntries(entries')
             IN  IF before # <<>> /\ Head(before).content = Payload(clipboard.image)
                 THEN after = before
                 ELSE /\ Len(after) = Len(before) + 1
                      /\ Head(after).content = Payload(clipboard.image)
                      /\ getImageHash(clipboard.image) # lastClipboardImage]_vars

----------------
(* Properties of the shutdown, checked under SpecLifetime *)

\* C15: when the application quits, close() leaves no flush timer pending
\* and the file holds the in-memory collection, whatever mutations came
\* before and whether or not their flush was still pending
C15_CloseFlushes ==
    [][(running /\ ~running')
          => /\ ~saveTimeout'
             /\ disk'.exists
             /\ disk'.entries = entries]_vars

\* the application has quit while a flush was pending for mutations that
\* the file did not hold yet; the file now holds a pinned entry
C15_Witness ==
    /\ ~running
    /\ last.op = "close" /\ last.ok
    /\ ~saveTimeout
    /\ \E i \in 1..Len(disk.entries) : disk.entries[i].isPinned

----------------
(* Properties of the categories, checked under SpecCategory *)

Formats == {"text", "html", "rtf", "image", "file"}

\* what the watcher can be asked to categorise: the content it submits for
\* each clipboard content
CategoryContents ==
    UNION {{c.text, c.html, c.rtf, saveImageToFile(c.image, TRUE)} :
              c \in CategoryClipboards}

\* the category of an entry as the specification states it
CategoryOf(format, autoCategories, contentType) ==
    IF format \in {"html", "rtf"}
    THEN <<"R", "i", "c", "h", " ", "T", "e", "x", "t">>
    ELSE IF format = "image" THEN <<"I", "m", "a", "g", "e", "s">>
    ELSE IF format = "file" THEN <<"F", "i", "l", "e", "s">>
    ELSE IF autoCategories = FALSE
    THEN <<"U", "n", "c", "a", "t", "e", "g", "o", "r", "i", "z", "e", "d">>
    ELSE CASE contentType = "url" -> <<"U", "R", "L", "s">>
           [] contentType = "email" ->
                <<"E", "m", "a", "i", "l", " ", "A", "d", "d", "r", "e", "s",
                  "s", "e", "s">>
           [] contentType = "phone" ->
                <<"P", "h", "o", "n", "e", " ", "N", "u", "m", "b", "e", "r",
                  "s">>
           [] contentType = "code" -> <<"C", "o", "d", "e">>
           [] OTHER -> <<"T", "e", "x", "t">>

\* C16: the category is a fixed function of the format, the autoCategories
\* setting and the detected content type: the categoriser computes it for
\* every format and content, and every entry that a tick stores carries it
\* for its own format and content type and the setting at that tick
C16_CategoryFunction ==
    /\ [](\A format \in Formats, content \in CategoryContents :
             asyncCategorizeContent(content, format)
                 = CategoryOf(format, settings.autoCategories,
                              detectContentType(content, format)))
    /\ [][\A i \in 1..Len(entries') :
             entries'[i].id >= nextId
                 => entries'[i].category
                        = CategoryOf(entries'[i].format,
                                     settings.autoCategories,
                                     entries'[i].contentType)]_vars

\* with autoCategories off, the history holds an HTML entry under
\* "Rich Text" above a URL stored as "Uncategorized"
C16_Witness ==
    /\ settings.autoCategories = FALSE
    /\ last.op = "tick" /\ last.ok
    /\ Len(entries) = 2
    /\ entries[1].format = "html"
    /\ entries[1].category = <<"R", "i", "c", "h", " ", "T", "e", "x", "t">>
    /\ entries[2].content \in UrlTexts
    /\ entries[2].category
           = <<"U", "n", "c", "a", "t", "e", "g", "o", "r", "i", "z", "e", "d">>

----------------
(* Properties of the calls with an unknown id, checked under SpecLifetime *)

\* C17: update, delete and pin with an id that no stored entry has report
\* that they found nothing (last.ok is false: the null or false result),
\* leave the collection, the id counter and the file as they are and
\* schedule no flush
C17_UnknownId ==
    [][(/\ last' # last
        /\ last'.op \in {"update", "delete", "pin"}
        /\ last'.id \notin Ids(entries))
          => /\ ~last'.ok
             /\ entries' = entries
             /\ saveTimeout' = saveTimeout
             /\ nextId' = nextId
             /\ disk' = disk]_vars

\* a delete with the id of an entry that was deleted before, on a store that
\* holds another entry and has no flush pending: nothing was found and no
\* flush is pending
C17_Witness ==
    /\ last.op = "delete" /\ ~last.ok
    /\ last.id \notin Ids(entries)
    /\ entries # <<>>
    /\ ~saveTimeout
    /\ disk = saveData(entries)

----------------
(* Properties of the usage tracking, checked under SpecPaste *)

\* C18: a paste of a stored entry raises the usageCount of that entry by one
C18_UsageTracked ==
    [][(pasteCount' = pasteCount + 1 /\ Found(last'.id))
          => LET i == IndexOf(last'.id)
             IN  entries'[i].usageCount = entries[i].usageCount + 1]_vars

----------------
(* Properties of the previews, checked under SpecPreview *)

\* what the watcher can be asked to build a preview of
PreviewContents ==
    UNION {{c.text, c.html, c.rtf, saveImageToFile(c.image, TRUE)} :
              c \in PreviewClipboards}

\* C19: the preview of every entry built by the watcher has at most 100
\* characters, for every content length and every format
C19_PreviewAtMost100 ==
    \A i \in 1..Len(entries) : Len(entries[i].preview) <= 100

\* the preview is the text itself when the text has at most 100 characters,
\* and otherwise its first 100 characters followed by "..."
Shortened(preview, text) ==
    IF Len(text) <= 100 THEN preview = text
    ELSE preview = Substring0(text, 100) \o <<".", ".", ".">>

\* C19 as amended: the preview of every entry built by the watcher has at
\* most 103 characters: a fixed placeholder for image and file, and for the
\* other formats the text (for html and rtf the text without markup, or a
\* placeholder when that is empty), shortened to its first 100 characters
\* followed by "..." when it has more than 100
C19_PreviewAtMost103 ==
    /\ \A i \in 1..Len(entries) :
           /\ Len(entries[i].preview) <= 103
           /\ entries[i].format = "text"
                  => Shortened(entries[i].preview, entries[i].content)
    /\ \A format \in Formats, content \in PreviewContents :
           LET preview == generatePreview(content, format)
           IN  /\ Len(preview) <= 103
               /\ format \in {"image", "file"} => Len(preview) <= 7
               /\ format = "text" => Shortened(preview, content)
               /\ format = "html" /\ extractCleanTextFromHTML(content) # <<>>
                      => Shortened(preview, extractCleanTextFromHTML(content))
               /\ format = "rtf" /\ extractTextFromRTF(content) # <<>>
                      => Shortened(preview, extractTextFromRTF(content))

\* the history holds an HTML entry whose preview has 103 characters, above
\* a text entry of 100 characters that is its own preview
C19_Witness ==
    /\ Len(entries) = 2
    /\ entries[1].format = "html"
    /\ Len(entries[1].preview) = 103
    /\ entries[2].format = "text"
    /\ Len(entries[2].content) = 100
    /\ entries[2].preview = entries[2].content

----------------
(* Properties of the settings reads, checked under SpecSettings *)

\* C20: when a tick finds a new text, the entry is inserted whatever the
\* reads of the settings did: a read of autoCategories that returned
\* undefined or threw counts as true, a read of maxHistoryItems that
\* returned undefined or threw counts as 40
C20_DefaultsWhenUnavailable ==
    [][(/\ last'.op = "tick"
        /\ clipboard' = clipboard
        /\ isMonitoring
        /\ clipboard.text # <<>>
        /\ clipboard.text # lastClipboardContent)
          => /\ nextId' > nextId
             /\ \E i \in 1..Len(entries') :
                    /\ entries'[i].id = nextId
                    /\ entries'[i].category
                           = CategoryOf(entries'[i].format,
                                        IF last'.autoRead = "value"
                                        THEN settings.autoCategories
                                        ELSE TRUE,
                                        entries'[i].contentType)
             /\ last'.limit = IF last'.maxRead = "value" THEN LimitSetting
                              ELSE 40]_vars

----------------------------------------------------------------------------
(* Specification of the load: the application is launched on a user data   *)
(* directory whose history file holds damaged records                      *)

MaxRecords == 2

\* a record as saveData wrote it
WholeRecord ==
    [id          |-> 1,
     content     |-> <<"a">>,
     contentType |-> "text",
     format      |-> "text",
     preview     |-> <<"a">>,
     createdAt   |-> 0 - 5,
     updatedAt   |-> 0 - 4,
     isPinned    |-> FALSE,
     category    |-> TextCategory,
     usageCount  |-> 0,
     note        |-> Undefined]

\* the records of a damaged file: a whole one, one that has only its id and
\* its content, one whose createdAt and one whose updatedAt is no date, and
\* null
DamagedRecords ==
    {WholeRecord,
     [id |-> 2, content |-> <<"b">>],
     [WholeRecord EXCEPT !.id = 3, !.createdAt = UnparsableDate],
     [WholeRecord EXCEPT !.id = 4, !.updatedAt = UnparsableDate],
     NullRecord}

DamagedFiles ==
    {[exists |-> TRUE, entries |-> records] :
        records \in UNION {[1..n -> DamagedRecords] : n \in 1..MaxRecords}}

InitLoad ==
    /\ disk \in DamagedFiles
    /\ running = FALSE
    /\ entries = <<>>
    /\ nextId = 1
    /\ saveTimeout = FALSE
    /\ now = 0
    /\ settings = DEFAULT_SETTINGS
    /\ last = Op("close", 0, 0, FALSE, FALSE, 0)
    /\ result = <<>>
    /\ issued = <<>>
    /\ runStart = 0
    /\ clipboard = EmptyClipboard
    /\ isMonitoring = FALSE
    /\ interval = FALSE
    /\ lastClipboardContent = <<>>
    /\ lastClipboardImage = <<>>
    /\ platform = "darwin"
    /\ NoPaste

NextLoad ==
    \/ Launch
    \/ Add
    \/ FlushTimer
    \/ ClockTick
    \/ Quit

SpecLoad == InitLoad /\ [][NextLoad]_vars

----------------
(* Properties of the load, checked under SpecLoad *)

\* the date of a record of the file is missing or cannot be parsed
Malformed(record, field) ==
    ~Has(record, field) \/ record[field] = UnparsableDate

\* every record of the file is an object
NoNullRecord == \A i \in 1..Len(disk.entries) : disk.entries[i] # NullRecord

\* C21: right after the load of a file whose records are objects, the store
\* holds one entry for every record of the file, every entry has valid
\* dates, and a date that was missing or unparsable in the file is a time of
\* this run
C21_LoadRepairs ==
    (running /\ last.op = "launch" /\ NoNullRecord)
        => /\ Len(entries) = Len(disk.entries)
           /\ \A i \in 1..Len(entries) :
                  /\ entries[i].createdAt # InvalidDate
                  /\ entries[i].updatedAt # InvalidDate
                  /\ Malformed(disk.entries[i], "createdAt")
                         => entries[i].createdAt \in 0..now
                  /\ Malformed(disk.entries[i], "updatedAt")
                         => entries[i].updatedAt \in 0..now

----------------------------------------------------------------------------
(* Specification of the watcher with the runs of checkClipboard taken step *)
(* by step: a run is suspended at its await of handleClipboardChange and   *)
(* resumed by the event loop, while other applications copy                *)

\* the text track has submitted its entry: the returned promise is settled
\* and the run of checkClipboard goes on behind its await at line 90, with
\* the values it read before the await
checkClipboardResume ==
    LET c == Head(suspended)
        entries1 ==
            EntriesAfterAdd(entries, nextId, WatcherDraft(c.format, c.content),
                            LimitSetting)
        imageData == saveImageToFile(clipboard.image, TRUE)
        imageChanged ==
            /\ c.hash # <<>>
            /\ c.hash # lastClipboardImage
            /\ imageData # <<>>
        entries2 ==
            IF imageChanged
            THEN EntriesAfterAdd(entries1, nextId + 1,
                                 WatcherDraft("image", imageData), LimitSetting)
            ELSE entries1
    IN  /\ running
        /\ suspended # <<>>
        /\ suspended' = Tail(suspended)
        /\ entries' = entries2
        /\ nextId' = IF imageChanged THEN nextId + 2 ELSE nextId + 1
        /\ debouncedSave
        /\ lastClipboardContent' = c.text
        /\ lastClipboardImage' =
               IF imageChanged THEN c.hash ELSE lastClipboardImage
        /\ issued' = issued
               \o <<[id |-> nextId, by |-> "text"]>>
               \o (IF imageChanged THEN <<[id |-> nextId + 1, by |-> "image"]>>
                   ELSE <<>>)
        /\ last' = Op("tick", nextId' - 1, LimitSetting, FALSE, TRUE, 0)
        /\ result' = <<>>
        /\ UNCHANGED <<running, disk, now, settings, runStart, clipboard,
                       isMonitoring, interval>>
        /\ UNCHANGED <<platform, targetAppInfo, awaiting, resumeTimers,
                       pasteCount, pasteWrote, saveDue, mainWindow>>

\* the poll timer fires although a run of checkClipboard is still suspended
checkClipboardStart_Overlapping ==
    /\ running /\ interval
    /\ Len(suspended) < 2
    /\ IF clipboard.text # <<>> /\ clipboard.text # lastClipboardContent
       THEN /\ suspended' = Append(suspended,
                                   [text    |-> clipboard.text,
                                    format  |-> TextFormat,
                                    content |-> TextContent,
                                    hash    |-> getImageHash(clipboard.image)])
            /\ last' = Op("tick:await", 0, 0, FALSE, TRUE, 0)
            /\ result' = <<>>
            /\ UNCHANGED <<running, entries, nextId, saveTimeout, disk, now,
                           settings, issued, runStart>>
            /\ UNCHANGED <<clipboard, isMonitoring, interval,
                           lastClipboardContent, lastClipboardImage>>
            /\ UNCHANGED <<platform, targetAppInfo, awaiting, resumeTimers,
                           pasteCount, pasteWrote, saveDue, mainWindow>>
       ELSE checkClipboard(TRUE)

\* The callback of the poll timer: checkClipboard up to its first await.
\* Every await of checkClipboard, handleClipboardChange and
\* asyncCategorizeContent waits for a value that is settled without input or
\* output, so a suspended run is resumed from the microtask queue, which the
\* event loop empties before it starts the next timer callback.  With an
\* unchanged text the run reaches no await of the text track.
checkClipboardStart ==
    /\ running /\ interval
    /\ suspended = <<>>
    /\ IF clipboard.text # <<>> /\ clipboard.text # lastClipboardContent
       THEN /\ suspended' = Append(suspended,
                                   [text    |-> clipboard.text,
                                    format  |-> TextFormat,
                                    content |-> TextContent,
                                    hash    |-> getImageHash(clipboard.image)])
            /\ last' = Op("tick:await", 0, 0, FALSE, TRUE, 0)
            /\ result' = <<>>
            /\ UNCHANGED <<running, entries, nextId, saveTimeout, disk, now,
                           settings, issued, runStart>>
            /\ UNCHANGED <<clipboard, isMonitoring, interval,
                           lastClipboardContent, lastClipboardImage>>
            /\ UNCHANGED <<platform, targetAppInfo, awaiting, resumeTimers,
                           pasteCount, pasteWrote, saveDue, mainWindow>>
       ELSE checkClipboard(TRUE)

TickStart ==
    /\ Len(issued) < MaxSubmits
    /\ checkClipboardStart

TickResume == checkClipboardResume

\* the handler of settings:set is a callback of the event loop as well
SetMonitoringBetween ==
    /\ suspended = <<>>
    /\ SetMonitoring

NextTicks ==
    \/ Copy
    \/ TickStart
    \/ TickResume
    \/ SetMonitoringBetween

SpecTicks == InitWatcher /\ [][NextTicks]_vars

----------------
(* Properties of the runs of checkClipboard, checked under SpecTicks *)

----------------
(* Properties of the text track, checked under SpecWatcher *)

TextFamily == {"text", "html", "rtf"}

\* C23: a run of checkClipboard creates an entry of the text family exactly
\* when the plain text of the clipboard is non-empty and differs from the
\* remembered value; the entry holds the HTML, the RTF or the plain text, and
\* the remembered value is the plain text afterwards; a run over a clipboard
\* whose plain text is the remembered value creates no such entry
C23_TextTrack ==
    [][(last'.op = "tick" /\ clipboard' = clipboard /\ interval)
         => LET changed == /\ clipboard.text # <<>>
                           /\ clipboard.text # lastClipboardContent
                created == \E i \in 1..Len(entries') :
                               /\ entries'[i].id = nextId
                               /\ entries'[i].format \in TextFamily
            IN  /\ created <=> changed
                /\ changed =>
                     /\ lastClipboardContent' = clipboard.text
                     /\ \E i \in 1..Len(entries') :
                            /\ entries'[i].id = nextId
                            /\ entries'[i].format = TextFormat
                            /\ entries'[i].content = TextContent
                /\ ~changed =>
                     /\ lastClipboardContent' = lastClipboardContent
                     /\ \A i \in 1..Len(entries') :
                            entries'[i].format \in TextFamily
                                => \E j \in 1..Len(entries) :
                                       entries[j] = entries'[i]]_vars

\* a run has stored the HTML of the clipboard and remembers its plain text
C23_Witness ==
    /\ last.op = "tick"
    /\ last.ok
    /\ Len(entries) >= 1
    /\ entries[1].format = "html"
    /\ entries[1].content = clipboard.html
    /\ lastClipboardContent = clipboard.text
    /\ entries[1].content # lastClipboardContent

----------------------------------------------------------------------------
(* Specification of the end of a run: the user pastes, other applications  *)
(* copy, the timers fire, the application cleans up on before-quit and on  *)
(* will-quit, and the process ends some time after                         *)

\* cleanup(): stop(), close(), and the windows are destroyed; the timers
\* that pasteToTargetApp has armed are not touched
cleanup ==
    /\ running
    /\ stop
    /\ saveTimeout' = FALSE
    /\ disk' = saveData(entries)
    /\ mainWindow' = FALSE
    /\ last' = Op("cleanup", 0, 0, FALSE, saveTimeout, 0)
    /\ result' = <<>>
    /\ UNCHANGED <<running, entries, nextId, now, settings, issued, runStart>>
    /\ UNCHANGED <<clipboard, platform, targetAppInfo, awaiting, resumeTimers,
                   pasteCount, pasteWrote, suspended, saveDue>>

\* the renderer invokes clipboard:paste while its window exists
PasteInWindow ==
    /\ mainWindow
    /\ Paste

\* the process ends
Exit ==
    /\ ~mainWindow
    /\ Quit

NextCleanup ==
    \/ PasteInWindow
    \/ PasteAfterDelay
    \/ ResumeTimer
    \/ PasteTick
    \/ PasteCopy
    \/ FlushTimer
    \/ cleanup
    \/ Exit

SpecCleanup == InitPaste /\ [][NextCleanup]_vars

----------------
(* Properties of the cleanup, checked under SpecCleanup *)

\* C24: once cleanup has called stop() and close(), no poll timer and no
\* flush timer is pending in any later state of the process
C24_NoTimerAfterCleanup ==
    (running /\ ~mainWindow) => (~interval /\ ~saveTimeout)

----------------------------------------------------------------------------
(* Specification of the debounced save in time: the store is mutated, the  *)
(* clock advances, and the timer of debouncedSave fires when it is due or  *)
(* later                                                                   *)

\* the delay of debouncedSave (1000 ms), in steps of the clock
QuietPeriod == 2

MaxTime == 4

\* debouncedSave keeps the timer that was pending
armTimer_KeepFirst ==
    saveDue' = IF saveTimeout THEN saveDue ELSE now + QuietPeriod

\* clearTimeout and setTimeout of debouncedSave: the one pending timer is due
\* a quiet period from now
armTimer == saveDue' = now + QuietPeriod

\* what a store operation leaves of the timer: last'.ok tells whether the
\* operation changed the store and so called debouncedSave
Timed ==
    /\ now + QuietPeriod <= MaxTime
    /\ IF last'.ok THEN armTimer ELSE UNCHANGED saveDue
    /\ UNCHANGED <<clipboard, isMonitoring, interval, lastClipboardContent,
                   lastClipboardImage, platform, targetAppInfo, awaiting,
                   resumeTimers, pasteCount, pasteWrote, suspended,
                   mainWindow>>

TimedAdd ==
    /\ Len(issued) < MaxAdds
    /\ \E pinned \in BOOLEAN : ClipboardAdd(Draft(<<"a">>, pinned))
    /\ Timed

TimedPin ==
    /\ \E id \in UserIds : pinClipboardEntry(id)
    /\ Timed

TimedUpdate ==
    /\ \E id \in UserIds, updates \in Patches :
           updateClipboardEntry(id, updates)
    /\ Timed

\* the callback of the timer runs when the timer is due, or later
TimedFlush ==
    /\ now >= saveDue
    /\ FlushTimer

Elapse ==
    /\ now < MaxTime
    /\ now' = now + 1
    /\ UNCHANGED <<running, entries, nextId, saveTimeout, disk,
                   settings, last, result, issued, runStart>>
    /\ UNCHANGED watcherVars

NextDebounce ==
    \/ TimedAdd
    \/ TimedPin
    \/ TimedUpdate
    \/ TimedFlush
    \/ Elapse

SpecDebounce == InitLifetime /\ [][NextDebounce]_vars

\* time passes, and a timer that is due fires
SpecDebounceLive ==
    SpecDebounce /\ WF_vars(Elapse) /\ WF_vars(TimedFlush)

----------------
(* Properties of the debounced save, checked under SpecDebounceLive *)

\* the time of the last mutation: every mutation of this specification
\* stamps the entry it touches
LastMutation ==
    CHOOSE t \in {entries[i].updatedAt : i \in 1..Len(entries)} :
        \A i \in 1..Len(entries) : entries[i].updatedAt <= t

\* C25: the file is written only by the timer, a quiet period or more after
\* the last mutation, with the entries that mutation produced; the write
\* leaves no timer pending, so a burst is written once; and a pending write
\* does happen
C25_DebouncedDurability ==
    /\ [][disk' # disk
            => /\ saveTimeout
               /\ ~saveTimeout'
               /\ now >= LastMutation + QuietPeriod
               /\ entries' = entries
               /\ disk' = saveData(entries)]_vars
    /\ [][(saveTimeout /\ ~saveTimeout') => disk' = saveData(entries)]_vars
    /\ (saveTimeout ~> (~saveTimeout /\ disk = saveData(entries)))

\* two inserts one step of the clock apart, less than the quiet period, have
\* been written by one write after the quiet period
C25_Witness ==
    /\ Len(entries) = 2
    /\ entries[2].updatedAt = 0
    /\ entries[1].updatedAt = 1
    /\ ~saveTimeout
    /\ now = 1 + QuietPeriod
    /\ disk = saveData(entries)

----------------------------------------------------------------------------
(* Specification of the eviction and the flush: the store is loaded from a *)
(* file of FileEntries records, entries are inserted, pinned and unpinned, *)
(* the limit is changed, and the timer of debouncedSave fires              *)

NextEvict ==
    \/ Add
    \/ Pin
    \/ SetLimit
    \/ FlushTimer

SpecEvict == Init /\ [][NextEvict]_vars

----------------
(* Properties of the eviction and the flush, checked under SpecEvict *)

\* C26: when an insert or a change of maxHistoryItems has removed at least
\* one entry, a flush is pending when the operation returns
C26_EvictionSchedulesFlush ==
    [][(/\ entries' # entries
        /\ last'.op \in {"add", "settings:set"}
        /\ last'.removed > 0)
          => saveTimeout']_vars

----------------------------------------------------------------------------
(* Specification of the watcher under failures: other applications copy,   *)
(* the poll timer fires, and a run of checkClipboard may fail while it     *)
(* reads the clipboard, while it classifies or while it submits            *)

\* how a run of checkClipboard ends: without a failure, with a throw of a
\* clipboard read, or with a throw inside handleClipboardChange before or in
\* the insert
TickOutcomes == {"ok", "readThrows", "classifyThrows", "submitThrows"}

\* a failure ends the polling
checkClipboardOutcome_StopsOnError(outcome) ==
    LET read == outcome # "readThrows"
        handled == outcome = "ok"
        currentText == clipboard.text
        currentImageHash == getImageHash(clipboard.image)
        textChanged ==
            read /\ currentText # <<>> /\ currentText # lastClipboardContent
        imageData == saveImageToFile(clipboard.image, TRUE)
        imageChanged ==
            /\ read
            /\ currentImageHash # <<>>
            /\ currentImageHash # lastClipboardImage
            /\ imageData # <<>>
        entries1 ==
            IF textChanged /\ handled
            THEN EntriesAfterAdd(entries, nextId,
                                 WatcherDraft(TextFormat, TextContent),
                                 LimitSetting)
            ELSE entries
        nextId1 == IF textChanged /\ handled THEN nextId + 1 ELSE nextId
        entries2 ==
            IF imageChanged /\ handled
            THEN EntriesAfterAdd(entries1, nextId1,
                                 WatcherDraft("image", imageData), LimitSetting)
            ELSE entries1
        nextId2 == IF imageChanged /\ handled THEN nextId1 + 1 ELSE nextId1
    IN  /\ running /\ interval
        /\ entries' = entries2
        /\ nextId' = nextId2
        /\ IF (textChanged \/ imageChanged) /\ handled
           THEN debouncedSave
           ELSE UNCHANGED saveTimeout
        /\ lastClipboardContent' =
               IF textChanged THEN currentText ELSE lastClipboardContent
        /\ lastClipboardImage' =
               IF imageChanged THEN currentImageHash ELSE lastClipboardImage
        /\ issued' = issued
               \o (IF textChanged /\ handled
                   THEN <<[id |-> nextId, by |-> "text"]>> ELSE <<>>)
               \o (IF imageChanged /\ handled
                   THEN <<[id |-> nextId1, by |-> "image"]>> ELSE <<>>)
        /\ last' = [op |-> "tick", id |-> nextId2 - 1, limit |-> LimitSetting,
                    pinned |-> FALSE,
                    ok |-> (textChanged \/ imageChanged) /\ handled,
                    removed |-> 0,
                    outcome |-> outcome,
                    after |-> "outcome" \in DOMAIN last
                                 /\ last.outcome # "ok"]
        /\ result' = <<>>
        /\ interval' = (outcome = "ok")
        /\ UNCHANGED <<running, disk, now, settings, runStart, clipboard,
                       isMonitoring>>
        /\ UNCHANGED pasteVars

\* One run of checkClipboard that ends as outcome says.  A throw of a
\* clipboard read is caught by the catch block of checkClipboard before
\* anything is compared or remembered.  A throw inside handleClipboardChange
\* is caught by its own catch block; it returns normally, so checkClipboard
\* remembers the text and the image hash although no entry was stored.
\* last.after records that the run before this one failed.
checkClipboardOutcome(outcome) ==
    LET read == outcome # "readThrows"
        handled == outcome = "ok"
        currentText == clipboard.text
        currentImageHash == getImageHash(clipboard.image)
        textChanged ==
            read /\ currentText # <<>> /\ currentText # lastClipboardContent
        imageData == saveImageToFile(clipboard.image, TRUE)
        imageChanged ==
            /\ read
            /\ currentImageHash # <<>>
            /\ currentImageHash # lastClipboardImage
            /\ imageData # <<>>
        entries1 ==
            IF textChanged /\ handled
            THEN EntriesAfterAdd(entries, nextId,
                                 WatcherDraft(TextFormat, TextContent),
                                 LimitSetting)
            ELSE entries
        nextId1 == IF textChanged /\ handled THEN nextId + 1 ELSE nextId
        entries2 ==
            IF imageChanged /\ handled
            THEN EntriesAfterAdd(entries1, nextId1,
                                 WatcherDraft("image", imageData), LimitSetting)
            ELSE entries1
        nextId2 == IF imageChanged /\ handled THEN nextId1 + 1 ELSE nextId1
    IN  /\ running /\ interval
        /\ entries' = entries2
        /\ nextId' = nextId2
        /\ IF (textChanged \/ imageChanged) /\ handled
           THEN debouncedSave
           ELSE UNCHANGED saveTimeout
        /\ lastClipboardContent' =
               IF textChanged THEN currentText ELSE lastClipboardContent
        /\ lastClipboardImage' =
               IF imageChanged THEN currentImageHash ELSE lastClipboardImage
        /\ issued' = issued
               \o (IF textChanged /\ handled
                   THEN <<[id |-> nextId, by |-> "text"]>> ELSE <<>>)
               \o (IF imageChanged /\ handled
                   THEN <<[id |-> nextId1, by |-> "image"]>> ELSE <<>>)
        /\ last' = [op |-> "tick", id |-> nextId2 - 1, limit |-> LimitSetting,
                    pinned |-> FALSE,
                    ok |-> (textChanged \/ imageChanged) /\ handled,
                    removed |-> 0,
                    outcome |-> outcome,
                    after |-> "outcome" \in DOMAIN last
                                 /\ last.outcome # "ok"]
        /\ result' = <<>>
        /\ interval' = interval
        /\ UNCHANGED <<running, disk, now, settings, runStart, clipboard,
                       isMonitoring>>
        /\ UNCHANGED pasteVars

TickOutcome ==
    /\ Len(issued) < MaxSubmits
    /\ \E outcome \in TickOutcomes : checkClipboardOutcome(outcome)

NextFailures ==
    \/ Copy
    \/ TickOutcome
    \/ SetMonitoring

SpecFailures == InitWatcher /\ [][NextFailures]_vars

----------------
(* Properties of the failures of a run, checked under SpecFailures *)

\* C27: a run of checkClipboard that fails leaves the process alive, the
\* poll timer armed and the store as it was; and a run without a failure
\* stores the text it finds changed, whatever happened in the runs before
C27_FailureContained ==
    [][(/\ last'.op = "tick"
        /\ last' # last
        /\ clipboard' = clipboard
        /\ interval)
          => /\ running'
             /\ interval'
             /\ isMonitoring' = isMonitoring
             /\ last'.outcome # "ok"
                    => /\ entries' = entries
                       /\ nextId' = nextId
                       /\ saveTimeout' = saveTimeout
             /\ (/\ last'.outcome = "ok"
                 /\ clipboard.text # <<>>
                 /\ clipboard.text # lastClipboardContent)
                    => /\ lastClipboardContent' = clipboard.text
                       /\ \E i \in 1..Len(entries') :
                              /\ entries'[i].id = nextId
                              /\ entries'[i].content = TextContent]_vars

\* a run failed, another application copied a new text, and the next run
\* has stored it
C27_Witness ==
    /\ last.op = "tick"
    /\ "outcome" \in DOMAIN last
    /\ last.outcome = "ok"
    /\ last.after
    /\ last.ok
    /\ interval
    /\ Len(entries) >= 1
    /\ entries[1].content = clipboard.text

----------------------------------------------------------------------------
(* Specification of the store on a file whose records carry the time of a  *)
(* clock that was ahead: the system clock has been set back since they     *)
(* were written                                                            *)

\* the records of FileOf("distinct"), stamped after every time of this run
AheadFile ==
    [exists  |-> TRUE,
     entries |-> [i \in 1..FileEntries |->
                    [FileOf("distinct").entries[i] EXCEPT
                        !.createdAt = @ + FileEntries + MaxClock,
                        !.updatedAt = @ + FileEntries + MaxClock]]]

InitAhead ==
    /\ disk \in {AheadFile, FileOf("distinct")}
    /\ running = TRUE
    /\ entries = loadData(disk)
    /\ nextId = updateNextId(loadData(disk))
    /\ saveTimeout = FALSE
    /\ now = 0
    /\ settings = DEFAULT_SETTINGS
    /\ last = NoOp
    /\ result = <<>>
    /\ issued = <<>>
    /\ runStart = 0
    /\ clipboard = EmptyClipboard
    /\ isMonitoring = TRUE
    /\ interval = TRUE
    /\ lastClipboardContent = EmptyClipboard.text
    /\ lastClipboardImage = getImageHash(EmptyClipboard.image)
    /\ platform = "darwin"
    /\ NoPaste

NextAhead ==
    \/ Add
    \/ Pin
    \/ SetLimit
    \/ ClockTick

SpecAhead == InitAhead /\ [][NextAhead]_vars

----------------
(* Properties of the insert, checked under SpecAhead *)

\* C28: the entry that an insert has added is in the store when the insert
\* returns
C28_InsertedEntryStays ==
    [][(last'.op = "add" /\ nextId' = nextId + 1)
          => \E i \in 1..Len(entries') : entries'[i].id = nextId]_vars

----------------
(* Properties of the paste under the monitorClipboard setting, checked     *)
(* under SpecPaste                                                         *)

\* C29: while monitorClipboard is false and the watcher is stopped, no step
\* that leaves the setting alone starts the watcher: not a paste, not the
\* end of its delay, not its resume timer, not its error path
C29_PasteKeepsMonitoringOff ==
    [][(/\ settings.monitorClipboard = FALSE
        /\ ~isMonitoring
        /\ settings' = settings)
          => ~isMonitoring']_vars

----------------------------------------------------------------------------
(* Specification of start() and stop() under a clipboard that may fail to  *)
(* be read: monitoring is switched on and off, other applications copy,    *)
(* the poll timer fires                                                    *)

\* start() in which clipboard.readText() returns (readOk) or throws: the
\* flag is set before the read, and a throw leaves start() before the
\* baseline is taken and before the interval is armed
startReading(readOk) ==
    IF isMonitoring
    THEN UNCHANGED <<isMonitoring, interval, lastClipboardContent,
                     lastClipboardImage>>
    ELSE IF readOk
    THEN /\ isMonitoring' = TRUE
         /\ lastClipboardContent' = clipboard.text
         /\ lastClipboardImage' = getImageHash(clipboard.image)
         /\ interval' = TRUE
    ELSE /\ isMonitoring' = TRUE
         /\ UNCHANGED <<interval, lastClipboardContent, lastClipboardImage>>

\* ipcMain.handle('settings:set') with key = 'monitorClipboard':
\* updateClipboardMonitoring(value) catches and logs what start() throws
SetMonitorClipboardReading(value, readOk) ==
    /\ running
    /\ settings' = [settings EXCEPT !.monitorClipboard = value]
    /\ IF value THEN startReading(readOk) ELSE stop
    /\ last' = Op("settings:set", 0, 0, FALSE, readOk, 0)
    /\ result' = <<>>
    /\ UNCHANGED <<running, entries, nextId, saveTimeout, disk, now, issued,
                   runStart, clipboard>>
    /\ UNCHANGED pasteVars

SetMonitoringReading ==
    \E value \in BOOLEAN, readOk \in BOOLEAN :
        SetMonitorClipboardReading(value, readOk)

NextStartStop ==
    \/ SetMonitoringReading
    \/ Copy
    \/ Tick

SpecStartStop == InitWatcher /\ [][NextStartStop]_vars

----------------
(* Properties of start() and stop(), checked under SpecStartStop *)

\* C30: isMonitoring is true exactly when the poll timer is armed
C30_FlagMatchesTimer == isMonitoring <=> interval

====
